---- MODULE Spec2Model ----
(***************************************************************************)
(* The admin surface of the auth API as a state machine: the Account      *)
(* table, and requests moving through the middleware chains that          *)
(* routes/admin/index.ts registers (requireAdmin, the express-validator   *)
(* chains, the role-hierarchy middleware of adminAuth.ts) into the        *)
(* handlers of AdminController.                                           *)
(*                                                                         *)
(* Spec     is the server: requests enter through the router only.        *)
(* SpecUnit calls the exported middleware and canModifyUser directly, on   *)
(*          any request object, the way a unit test does.                  *)
(* SpecAll  is both: the router, and the middleware called directly.       *)
(***************************************************************************)
EXTENDS Integers, Sequences, FiniteSets, TLC

VARIABLES
    accounts,   \* the Account table: Account_ID -> row
    reqs,       \* the requests: slot -> request (idle, in flight or ended)
    call        \* the direct call of canModifyUser made, and its result

vars == <<accounts, reqs, call>>

----------------------------------------------------------------------------
\* Bounds of the model.

MaxId == 2

\* Program constants.

MinRole == 1
ADMIN == 3
SUPER_ADMIN == 4
OWNER == 5

Ids == 1..MaxId
Roles == MinRole..OWNER

----------------------------------------------------------------------------
\* Values that arrive as text or JSON: params.id, body.role.

undefined == [defined |-> FALSE, chars |-> <<>>]

Str(s) == [defined |-> TRUE, chars |-> s]

Digits == {"0", "1", "2", "3", "4", "5", "6", "7", "8", "9"}

DigitVal(c) ==
    CASE c = "0" -> 0 [] c = "1" -> 1 [] c = "2" -> 2 [] c = "3" -> 3
      [] c = "4" -> 4 [] c = "5" -> 5 [] c = "6" -> 6 [] c = "7" -> 7
      [] c = "8" -> 8 [] c = "9" -> 9

NaN == [nan |-> TRUE, n |-> 0]

Num(n) == [nan |-> FALSE, n |-> n]

isNaN(x) == x.nan

RECURSIVE LeadingDigits(_)
LeadingDigits(s) ==
    IF s = <<>> \/ s[1] \notin Digits THEN <<>>
    ELSE <<s[1]>> \o LeadingDigits(Tail(s))

RECURSIVE DigitsValue(_, _)
DigitsValue(s, acc) ==
    IF s = <<>> THEN acc ELSE DigitsValue(Tail(s), 10 * acc + DigitVal(s[1]))

\* JavaScript's parseInt: an optional sign, then the longest run of digits;
\* what follows the digits is ignored; NaN when there is no digit.
parseInt(v) ==
    IF ~v.defined THEN NaN
    ELSE LET signed == v.chars # <<>> /\ v.chars[1] \in {"-", "+"}
             neg    == signed /\ v.chars[1] = "-"
             body   == IF signed THEN Tail(v.chars) ELSE v.chars
             d      == LeadingDigits(body)
         IN  IF d = <<>> THEN NaN
             ELSE Num(IF neg THEN 0 - DigitsValue(d, 0) ELSE DigitsValue(d, 0))

\* express-validator's notEmpty().
notEmpty(v) == v.defined /\ v.chars # <<>>

\* express-validator's isInt(): the whole text is an optional sign and
\* one or more digits (leading zeroes are allowed unless the option
\* allow_leading_zeroes is false, and no chain here sets it).
isIntText(v) ==
    /\ v.defined
    /\ LET signed == v.chars # <<>> /\ v.chars[1] \in {"-", "+"}
           body   == IF signed THEN Tail(v.chars) ELSE v.chars
       IN  /\ body # <<>>
           /\ \A i \in 1..Len(body) : body[i] \in Digits

\* isInt({ min, max })
isIntBetween(v, lo, hi) ==
    isIntText(v) /\ parseInt(v).n >= lo /\ parseInt(v).n <= hi

DigitChar(n) ==
    CASE n = 0 -> "0" [] n = 1 -> "1" [] n = 2 -> "2" [] n = 3 -> "3" [] n = 4 -> "4"
      [] n = 5 -> "5" [] n = 6 -> "6" [] n = 7 -> "7" [] n = 8 -> "8" [] n = 9 -> "9"

\* The texts a request may carry as params.id (the identifiers of the table,
\* one identifier no row has, a number followed by a letter, a word) and as
\* body.role.
RawIds ==
    {Str(<<DigitChar(i)>>) : i \in 1..(MaxId + 1)} \cup {Str(<<"2", "x">>), Str(<<"x">>)}

RawRoles ==
    {undefined, Str(<<"0">>), Str(<<"1">>), Str(<<"2">>), Str(<<"3">>), Str(<<"4">>),
     Str(<<"5">>), Str(<<"6">>), Str(<<"4", "x">>), Str(<<"x">>)}

----------------------------------------------------------------------------
\* The Account table. Account_ID is a serial: the rows are 1..n.

Statuses == {"active", "pending", "suspended", "locked", "deleted"}

NoRow ==
    [exists |-> FALSE, role |-> 0, status |-> "none",
     emailVerified |-> FALSE, phoneVerified |-> FALSE, credential |-> "none"]

\* A row as createUser inserts it.
NewRow(role) ==
    [exists |-> TRUE, role |-> role, status |-> "active",
     emailVerified |-> FALSE, phoneVerified |-> FALSE, credential |-> "set"]

RowCount(table) == Cardinality({i \in Ids : table[i].exists})

\* SELECT Account_Role FROM Account WHERE Account_ID = $1
SelectRole(table, id) ==
    IF id \in Ids /\ table[id].exists
    THEN [rowCount |-> 1, account_role |-> table[id].role]
    ELSE [rowCount |-> 0, account_role |-> 0]

----------------------------------------------------------------------------
\* Requests.

NoClaims == [present |-> FALSE, id |-> 0, role |-> 0]

Claims(id, role) == [present |-> TRUE, id |-> id, role |-> role]

AllClaims == {NoClaims} \cup {Claims(i, r) : i \in Ids, r \in Roles}

CREATE_USER == "POST /users/create"
LIST_USERS == "GET /users"
SEARCH_USERS == "GET /users/search"
DASHBOARD == "GET /users/stats/dashboard"
GET_USER == "GET /users/:id"
UPDATE_USER == "PUT /users/:id"
DELETE_USER == "DELETE /users/:id"
RESET_PASSWORD == "PUT /users/:id/password"
CHANGE_ROLE == "PUT /users/:id/role"

Routes ==
    {CREATE_USER, LIST_USERS, SEARCH_USERS, DASHBOARD, GET_USER, UPDATE_USER,
     DELETE_USER, RESET_PASSWORD, CHANGE_ROLE}

ReadRoutes == {LIST_USERS, SEARCH_USERS, DASHBOARD, GET_USER}

Method(route) ==
    CASE route = CREATE_USER -> "POST"
      [] route \in ReadRoutes -> "GET"
      [] route = DELETE_USER -> "DELETE"
      [] OTHER -> "PUT"

\* The handlers registered for each route, in order; adminRoutes.use puts
\* requireAdmin in front of every one of them.
Chain(route) ==
    <<"requireAdmin">> \o
    CASE route = CREATE_USER ->
            <<"validateAdminCreateUser", "validateRoleCreation", "createUser">>
      [] route = LIST_USERS -> <<"validateAdminUsersList", "getAllUsers">>
      [] route = SEARCH_USERS -> <<"validateUserSearch", "searchUsers">>
      [] route = DASHBOARD -> <<"getDashboardStats">>
      [] route = GET_USER -> <<"getUserById">>
      [] route = UPDATE_USER -> <<"checkRoleHierarchy", "updateUser">>
      [] route = DELETE_USER -> <<"checkRoleHierarchy", "deleteUser">>
      [] route = RESET_PASSWORD ->
            <<"validateAdminPasswordReset", "checkRoleHierarchy", "resetUserPassword">>
      [] route = CHANGE_ROLE ->
            <<"validateAdminRoleChange", "checkRoleChangeHierarchy", "changeUserRole">>

HasIdParam(route) ==
    route \in {GET_USER, UPDATE_USER, DELETE_USER, RESET_PASSWORD, CHANGE_ROLE}

HasRoleBody(route) == route \in {CREATE_USER, CHANGE_ROLE}

\* A request object. chain is the list of handlers it runs through and step
\* the handler it is in; pc is that handler's name, a place inside it
\* (an awaited query) or how the request ended:
\*   "done"       a response was sent (status, message, errors)
\*   "forwarded"  the last handler of the chain called next()
\*   "threw"      a handler threw and sent nothing
\* trail lists the handlers that ran, lookups counts the middleware's
\* target-role queries, queried and queryFailed keep the last one's result,
\* opReads counts the SELECTs of the target row that the operation itself
\* issued, writes lists the rows the request wrote, sends and nexts count the
\* responses sent and the calls of next().
IdleRequest ==
    [pc |-> "idle", route |-> "none", method |-> "none", chain |-> <<>>, step |-> 0,
     claims |-> NoClaims, paramId |-> undefined, bodyRole |-> undefined,
     status |-> 0, message |-> "none", errors |-> {}, responder |-> "none",
     targetUserRole |-> 0, trail |-> <<>>, lookups |-> 0,
     queried |-> [rowCount |-> 0, account_role |-> 0], queryFailed |-> FALSE,
     opReads |-> 0, writes |-> <<>>, sends |-> 0, nexts |-> 0]

NewRequest(chain, route, method, claims, id, role) ==
    [IdleRequest EXCEPT !.pc = chain[1], !.route = route, !.method = method,
                        !.chain = chain, !.step = 1, !.claims = claims,
                        !.paramId = id, !.bodyRole = role]

Ended(r) == r.pc \in {"done", "forwarded", "threw"}

\* What a handler does with the request it was given.
CallNext == [kind |-> "next", status |-> 0, message |-> "none", at |-> "none"]

SendError(status, message) ==
    [kind |-> "send", status |-> status, message |-> message, at |-> "none"]

SendSuccess(message) ==
    [kind |-> "send", status |-> 200, message |-> message, at |-> "none"]

Await(at) == [kind |-> "await", status |-> 0, message |-> "none", at |-> at]

Throw == [kind |-> "throw", status |-> 0, message |-> "none", at |-> "none"]

\* A handler that sends a response and goes on to call next(): sendError
\* with no return after it. Express lets it; no handler here does it.
SendErrorAndNext(status, message) ==
    [kind |-> "send+next", status |-> status, message |-> message, at |-> "none"]

\* The request after the handler it is in did `o`.
Apply(r, o) ==
    LET ran  == [r EXCEPT !.trail = Append(r.trail, r.chain[r.step])]
        sent == [ran EXCEPT !.status = o.status, !.message = o.message,
                            !.responder = r.chain[r.step], !.sends = @ + 1]
        Forward(q) ==
            IF q.step = Len(q.chain) THEN [q EXCEPT !.pc = "forwarded", !.nexts = @ + 1]
            ELSE [q EXCEPT !.pc = q.chain[q.step + 1], !.step = q.step + 1,
                           !.nexts = @ + 1]
    IN  CASE o.kind = "send" -> [sent EXCEPT !.pc = "done"]
          [] o.kind = "throw" -> [ran EXCEPT !.pc = "threw"]
          [] o.kind = "await" -> [r EXCEPT !.pc = o.at]
          [] o.kind = "next" -> Forward(ran)
          [] o.kind = "send+next" -> Forward(sent)

----------------------------------------------------------------------------
\* core/middleware/adminAuth.ts

\* requireAdmin with the threshold one tier too high.
requireAdminOutcome_SuperAdmin(r) ==
    IF ~r.claims.present THEN SendError(401, "Authentication required")
    ELSE IF r.claims.role < SUPER_ADMIN THEN SendError(403, "Admin access required")
    ELSE CallNext

\* requireAdmin without the test for claims.
requireAdminOutcome_NoClaimsCheck(r) ==
    IF r.claims.role < ADMIN THEN SendError(403, "Admin access required")
    ELSE CallNext

\* requireAdmin with no return after the 403: the response is sent and
\* next() is called.
requireAdminOutcome_NoReturn(r) ==
    IF ~r.claims.present THEN SendError(401, "Authentication required")
    ELSE IF r.claims.role < ADMIN THEN SendErrorAndNext(403, "Admin access required")
    ELSE CallNext

requireAdminOutcome(r) ==
    IF ~r.claims.present THEN SendError(401, "Authentication required")
    ELSE IF r.claims.role < ADMIN THEN SendError(403, "Admin access required")
    ELSE CallNext

\* checkRoleHierarchy without the test for a delete of oneself.
checkRoleHierarchyEntry_NoSelf(r) ==
    LET targetUserId == parseInt(r.paramId)
    IN  IF ~r.claims.present THEN Throw
        ELSE IF isNaN(targetUserId) THEN SendError(400, "Invalid user ID")
        ELSE Await("checkRoleHierarchy:query")

\* checkRoleHierarchy up to its query. Reading request.claims.role of a
\* request without claims throws.
checkRoleHierarchyEntry(r) ==
    LET targetUserId == parseInt(r.paramId)
    IN  IF ~r.claims.present THEN Throw
        ELSE IF isNaN(targetUserId) THEN SendError(400, "Invalid user ID")
        ELSE IF r.method = "DELETE" /\ targetUserId.n = r.claims.id
             THEN SendError(400, "Cannot delete your own account")
        ELSE Await("checkRoleHierarchy:query")

\* checkRoleHierarchy with < for <=: an equal role is let through.
checkRoleHierarchyResume_Strict(r, failed, targetUserQuery) ==
    LET adminRole  == r.claims.role
        targetRole == targetUserQuery.account_role
    IN  IF failed THEN SendError(500, "Server error")
        ELSE IF targetUserQuery.rowCount = 0 THEN SendError(404, "User not found")
        ELSE IF adminRole < targetRole
             THEN IF r.method = "DELETE"
                  THEN SendError(403, "Cannot delete user with equal or higher role")
                  ELSE SendError(403, "Cannot modify user with equal or higher role")
        ELSE CallNext

\* checkRoleHierarchy comparing the roles for DELETE only.
checkRoleHierarchyResume_DeleteOnly(r, failed, targetUserQuery) ==
    LET adminRole  == r.claims.role
        targetRole == targetUserQuery.account_role
    IN  IF failed THEN SendError(500, "Server error")
        ELSE IF targetUserQuery.rowCount = 0 THEN SendError(404, "User not found")
        ELSE IF r.method = "DELETE" /\ adminRole <= targetRole
             THEN SendError(403, "Cannot delete user with equal or higher role")
        ELSE CallNext

\* checkRoleHierarchy with a catch that logs the error and calls next().
checkRoleHierarchyResume_FailOpen(r, failed, targetUserQuery) ==
    LET adminRole  == r.claims.role
        targetRole == targetUserQuery.account_role
    IN  IF failed THEN CallNext
        ELSE IF targetUserQuery.rowCount = 0 THEN SendError(404, "User not found")
        ELSE IF adminRole <= targetRole
             THEN IF r.method = "DELETE"
                  THEN SendError(403, "Cannot delete user with equal or higher role")
                  ELSE SendError(403, "Cannot modify user with equal or higher role")
        ELSE CallNext

\* checkRoleHierarchy with the owner's shortcut of canModifyUser.
checkRoleHierarchyResume_OwnerShortcut(r, failed, targetUserQuery) ==
    LET adminRole  == r.claims.role
        targetRole == targetUserQuery.account_role
    IN  IF failed THEN SendError(500, "Server error")
        ELSE IF targetUserQuery.rowCount = 0 THEN SendError(404, "User not found")
        ELSE IF adminRole # OWNER /\ adminRole <= targetRole
             THEN IF r.method = "DELETE"
                  THEN SendError(403, "Cannot delete user with equal or higher role")
                  ELSE SendError(403, "Cannot modify user with equal or higher role")
        ELSE CallNext

\* checkRoleHierarchy from the query's result on; failed: the query threw.
checkRoleHierarchyResume(r, failed, targetUserQuery) ==
    LET adminRole  == r.claims.role
        targetRole == targetUserQuery.account_role
    IN  IF failed THEN SendError(500, "Server error")
        ELSE IF targetUserQuery.rowCount = 0 THEN SendError(404, "User not found")
        ELSE IF adminRole <= targetRole
             THEN IF r.method = "DELETE"
                  THEN SendError(403, "Cannot delete user with equal or higher role")
                  ELSE SendError(403, "Cannot modify user with equal or higher role")
        ELSE CallNext

\* validateRoleCreation with the range test only: any role from 1 to 5 may
\* be created.
validateRoleCreationOutcome_RangeOnly(r) ==
    LET newUserRole == parseInt(r.bodyRole)
    IN  IF ~r.claims.present THEN Throw
        ELSE IF isNaN(newUserRole) \/ newUserRole.n < 1 \/ newUserRole.n > 5
             THEN SendError(400, "Invalid role. Must be between 1-5")
        ELSE CallNext

\* validateRoleCreation with >= for >: an equal role is refused.
validateRoleCreationOutcome_Ge(r) ==
    LET newUserRole == parseInt(r.bodyRole)
    IN  IF ~r.claims.present THEN Throw
        ELSE IF isNaN(newUserRole) \/ newUserRole.n < 1 \/ newUserRole.n > 5
             THEN SendError(400, "Invalid role. Must be between 1-5")
        ELSE IF newUserRole.n >= r.claims.role
             THEN SendError(403, "Cannot create user with higher role than your own")
        ELSE CallNext

validateRoleCreationOutcome(r) ==
    LET newUserRole == parseInt(r.bodyRole)
    IN  IF ~r.claims.present THEN Throw
        ELSE IF isNaN(newUserRole) \/ newUserRole.n < 1 \/ newUserRole.n > 5
             THEN SendError(400, "Invalid role. Must be between 1-5")
        ELSE IF newUserRole.n > r.claims.role
             THEN SendError(403, "Cannot create user with higher role than your own")
        ELSE CallNext

validateRoleAssignmentOutcome(r) ==
    LET assignedRole == parseInt(r.bodyRole)
    IN  IF ~r.claims.present THEN Throw
        ELSE IF ~r.bodyRole.defined THEN CallNext
        ELSE IF isNaN(assignedRole) \/ assignedRole.n < 1 \/ assignedRole.n > 5
             THEN SendError(400, "Invalid role. Must be between 1-5")
        ELSE IF assignedRole.n >= r.claims.role
             THEN SendError(403, "Can only assign roles lower than your own")
        ELSE CallNext

\* checkRoleChangeHierarchy with the promotion test before the self test.
checkRoleChangeHierarchyEntry_PromoteFirst(r) ==
    LET targetUserId == parseInt(r.paramId)
        newRole      == parseInt(r.bodyRole)
    IN  IF ~r.claims.present THEN Throw
        ELSE IF isNaN(targetUserId) \/ isNaN(newRole)
             THEN SendError(400, "Invalid user ID or role")
        ELSE IF newRole.n > r.claims.role
             THEN SendError(403, "Cannot promote user to higher role than your own")
        ELSE IF targetUserId.n = r.claims.id
             THEN SendError(400, "Cannot change your own role")
        ELSE Await("checkRoleChangeHierarchy:query")

\* checkRoleChangeHierarchy without the self test.
checkRoleChangeHierarchyEntry_NoSelf(r) ==
    LET targetUserId == parseInt(r.paramId)
        newRole      == parseInt(r.bodyRole)
    IN  IF ~r.claims.present THEN Throw
        ELSE IF isNaN(targetUserId) \/ isNaN(newRole)
             THEN SendError(400, "Invalid user ID or role")
        ELSE IF newRole.n > r.claims.role
             THEN SendError(403, "Cannot promote user to higher role than your own")
        ELSE Await("checkRoleChangeHierarchy:query")

\* checkRoleChangeHierarchy without the promotion test.
checkRoleChangeHierarchyEntry_NoCeiling(r) ==
    LET targetUserId == parseInt(r.paramId)
        newRole      == parseInt(r.bodyRole)
    IN  IF ~r.claims.present THEN Throw
        ELSE IF isNaN(targetUserId) \/ isNaN(newRole)
             THEN SendError(400, "Invalid user ID or role")
        ELSE IF targetUserId.n = r.claims.id
             THEN SendError(400, "Cannot change your own role")
        ELSE Await("checkRoleChangeHierarchy:query")

\* checkRoleChangeHierarchy up to its query.
\* checkRoleChangeHierarchy with the promotion ceiling at the highest role,
\* not at the actor's.
checkRoleChangeHierarchyEntry_FixedCeiling(r) ==
    LET targetUserId == parseInt(r.paramId)
        newRole      == parseInt(r.bodyRole)
    IN  IF ~r.claims.present THEN Throw
        ELSE IF isNaN(targetUserId) \/ isNaN(newRole)
             THEN SendError(400, "Invalid user ID or role")
        ELSE IF targetUserId.n = r.claims.id
             THEN SendError(400, "Cannot change your own role")
        ELSE IF newRole.n > OWNER
             THEN SendError(403, "Cannot promote user to higher role than your own")
        ELSE Await("checkRoleChangeHierarchy:query")

checkRoleChangeHierarchyEntry(r) ==
    LET targetUserId == parseInt(r.paramId)
        newRole      == parseInt(r.bodyRole)
    IN  IF ~r.claims.present THEN Throw
        ELSE IF isNaN(targetUserId) \/ isNaN(newRole)
             THEN SendError(400, "Invalid user ID or role")
        ELSE IF targetUserId.n = r.claims.id
             THEN SendError(400, "Cannot change your own role")
        ELSE IF newRole.n > r.claims.role
             THEN SendError(403, "Cannot promote user to higher role than your own")
        ELSE Await("checkRoleChangeHierarchy:query")

\* checkRoleChangeHierarchy with > for >=: a peer's role may be changed.
checkRoleChangeHierarchyResume_Gt(r, failed, targetUserQuery) ==
    LET adminRole         == r.claims.role
        newRole           == parseInt(r.bodyRole)
        currentTargetRole == targetUserQuery.account_role
    IN  IF failed THEN SendError(500, "Server error during authorization check")
        ELSE IF targetUserQuery.rowCount = 0 THEN SendError(404, "User not found")
        ELSE IF currentTargetRole > adminRole
             THEN SendError(403, "Cannot change role of user with equal or higher role")
        ELSE IF adminRole = 3 /\ newRole.n > 3
             THEN SendError(403, "Admins can only assign roles up to admin level")
        ELSE CallNext

\* checkRoleChangeHierarchy without the rowCount test: rows[0] of an empty
\* result is undefined, reading its field throws, and the catch answers 500.
checkRoleChangeHierarchyResume_NoRowCount(r, failed, targetUserQuery) ==
    LET adminRole         == r.claims.role
        newRole           == parseInt(r.bodyRole)
        currentTargetRole == targetUserQuery.account_role
    IN  IF failed \/ targetUserQuery.rowCount = 0
        THEN SendError(500, "Server error during authorization check")
        ELSE IF currentTargetRole >= adminRole
             THEN SendError(403, "Cannot change role of user with equal or higher role")
        ELSE IF adminRole = 3 /\ newRole.n > 3
             THEN SendError(403, "Admins can only assign roles up to admin level")
        ELSE CallNext

\* checkRoleChangeHierarchy answering a protected target with the message of
\* the promotion rule (a copied sendError).
checkRoleChangeHierarchyResume_CopiedMessage(r, failed, targetUserQuery) ==
    LET adminRole         == r.claims.role
        newRole           == parseInt(r.bodyRole)
        currentTargetRole == targetUserQuery.account_role
    IN  IF failed THEN SendError(500, "Server error during authorization check")
        ELSE IF targetUserQuery.rowCount = 0 THEN SendError(404, "User not found")
        ELSE IF currentTargetRole >= adminRole
             THEN SendError(403, "Cannot promote user to higher role than your own")
        ELSE IF adminRole = 3 /\ newRole.n > 3
             THEN SendError(403, "Admins can only assign roles up to admin level")
        ELSE CallNext

\* checkRoleChangeHierarchy comparing the new role, not the target's, with
\* the actor's.
checkRoleChangeHierarchyResume_WrongOperand(r, failed, targetUserQuery) ==
    LET adminRole         == r.claims.role
        newRole           == parseInt(r.bodyRole)
        currentTargetRole == targetUserQuery.account_role
    IN  IF failed THEN SendError(500, "Server error during authorization check")
        ELSE IF targetUserQuery.rowCount = 0 THEN SendError(404, "User not found")
        ELSE IF newRole.n >= adminRole
             THEN SendError(403, "Cannot change role of user with equal or higher role")
        ELSE IF adminRole = 3 /\ newRole.n > 3
             THEN SendError(403, "Admins can only assign roles up to admin level")
        ELSE CallNext

\* checkRoleChangeHierarchy letting any demotion through: the target's role
\* is compared with the actor's only when the new role is not below it.
checkRoleChangeHierarchyResume_DemotionAllowed(r, failed, targetUserQuery) ==
    LET adminRole         == r.claims.role
        newRole           == parseInt(r.bodyRole)
        currentTargetRole == targetUserQuery.account_role
    IN  IF failed THEN SendError(500, "Server error during authorization check")
        ELSE IF targetUserQuery.rowCount = 0 THEN SendError(404, "User not found")
        ELSE IF newRole.n >= currentTargetRole /\ currentTargetRole >= adminRole
             THEN SendError(403, "Cannot change role of user with equal or higher role")
        ELSE IF adminRole = 3 /\ newRole.n > 3
             THEN SendError(403, "Admins can only assign roles up to admin level")
        ELSE CallNext

\* checkRoleChangeHierarchy from the query's result on.
checkRoleChangeHierarchyResume(r, failed, targetUserQuery) ==
    LET adminRole         == r.claims.role
        newRole           == parseInt(r.bodyRole)
        currentTargetRole == targetUserQuery.account_role
    IN  IF failed THEN SendError(500, "Server error during authorization check")
        ELSE IF targetUserQuery.rowCount = 0 THEN SendError(404, "User not found")
        ELSE IF currentTargetRole >= adminRole
             THEN SendError(403, "Cannot change role of user with equal or higher role")
        ELSE IF adminRole = 3 /\ newRole.n > 3
             THEN SendError(403, "Admins can only assign roles up to admin level")
        ELSE CallNext

\* canModifyUser without the owner's shortcut.
canModifyUser_NoOwner(modifierRole, targetRole) == modifierRole > targetRole

\* canModifyUser with >= for >.
canModifyUser_Ge(modifierRole, targetRole) ==
    IF modifierRole = OWNER THEN TRUE ELSE modifierRole >= targetRole

canModifyUser(modifierRole, targetRole) ==
    IF modifierRole = OWNER THEN TRUE ELSE modifierRole > targetRole

----------------------------------------------------------------------------
\* core/middleware/validation.ts: the express-validator chains. Each rule
\* that fails adds an error for its field; handleValidationErrors answers
\* 400 when there is any. The fields the hierarchy rules never read (names,
\* email, password, query parameters) are valid or not as the caller pleases.

RoleErrors(r) ==
    IF notEmpty(r.bodyRole) /\ isIntBetween(r.bodyRole, 1, 5) THEN {} ELSE {"role"}

IdErrors(r) ==
    IF notEmpty(r.paramId) /\ isIntText(r.paramId) THEN {} ELSE {"id"}

handleValidationErrors(errors) ==
    IF errors # {} THEN SendError(400, "Validation failed") ELSE CallNext

validateAdminCreateUserErrors(r, others) == RoleErrors(r) \cup others

validateAdminPasswordResetErrors(r, others) == IdErrors(r) \cup others

validateAdminRoleChangeErrors(r) == IdErrors(r) \cup RoleErrors(r)

----------------------------------------------------------------------------
\* The state a request finds: a table of rows 1..n, each as createUser
\* inserted it, with any role, and the request not yet received.

Rows == {NewRow(role) : role \in Roles}

Tables ==
    {t \in [Ids -> {NoRow} \cup Rows] :
        \A i \in Ids : t[i].exists => \A j \in 1..i : t[j].exists}

\* One request is followed from its arrival to its end.
Slots == {1}

NoCall == [fn |-> "none", modifierRole |-> 0, targetRole |-> 0, result |-> FALSE]

Init ==
    /\ accounts \in Tables
    /\ reqs = [s \in Slots |-> IdleRequest]
    /\ call = NoCall

Step(s, o) == reqs' = [reqs EXCEPT ![s] = Apply(reqs[s], o)]

\* The same, for a handler that issued a SELECT of the target row first.
StepAfterRead(s, o) ==
    reqs' = [reqs EXCEPT ![s] = [Apply(reqs[s], o) EXCEPT !.opReads = @ + 1]]

\* The router takes a request whose URL and method match a route; checkToken
\* has run, so the request carries the claims of its token, or none.
Receive(s) ==
    /\ reqs[s].pc = "idle"
    /\ \E route \in Routes, claims \in AllClaims :
        \E id \in IF HasIdParam(route) THEN RawIds ELSE {undefined} :
        \E role \in IF HasRoleBody(route) THEN RawRoles ELSE {undefined} :
            reqs' = [reqs EXCEPT ![s] =
                        NewRequest(Chain(route), route, Method(route), claims, id, role)]
    /\ UNCHANGED <<accounts, call>>

requireAdmin(s) ==
    /\ reqs[s].pc = "requireAdmin"
    /\ Step(s, requireAdminOutcome(reqs[s]))
    /\ UNCHANGED <<accounts, call>>

Validate(s, errors) ==
    reqs' = [reqs EXCEPT ![s] =
                [Apply(reqs[s], handleValidationErrors(errors)) EXCEPT !.errors = errors]]

validateAdminCreateUser(s) ==
    /\ reqs[s].pc = "validateAdminCreateUser"
    /\ \E others \in SUBSET {"other"} :
        Validate(s, validateAdminCreateUserErrors(reqs[s], others))
    /\ UNCHANGED <<accounts, call>>

validateAdminUsersList(s) ==
    /\ reqs[s].pc = "validateAdminUsersList"
    /\ \E errors \in SUBSET {"query"} : Validate(s, errors)
    /\ UNCHANGED <<accounts, call>>

validateUserSearch(s) ==
    /\ reqs[s].pc = "validateUserSearch"
    /\ \E errors \in SUBSET {"query"} : Validate(s, errors)
    /\ UNCHANGED <<accounts, call>>

validateAdminPasswordReset(s) ==
    /\ reqs[s].pc = "validateAdminPasswordReset"
    /\ \E others \in SUBSET {"password"} :
        Validate(s, validateAdminPasswordResetErrors(reqs[s], others))
    /\ UNCHANGED <<accounts, call>>

validateAdminRoleChange(s) ==
    /\ reqs[s].pc = "validateAdminRoleChange"
    /\ Validate(s, validateAdminRoleChangeErrors(reqs[s]))
    /\ UNCHANGED <<accounts, call>>

validateRoleCreation(s) ==
    /\ reqs[s].pc = "validateRoleCreation"
    /\ Step(s, validateRoleCreationOutcome(reqs[s]))
    /\ UNCHANGED <<accounts, call>>

validateRoleAssignment(s) ==
    /\ reqs[s].pc = "validateRoleAssignment"
    /\ Step(s, validateRoleAssignmentOutcome(reqs[s]))
    /\ UNCHANGED <<accounts, call>>

checkRoleHierarchy(s) ==
    /\ reqs[s].pc = "checkRoleHierarchy"
    /\ Step(s, checkRoleHierarchyEntry(reqs[s]))
    /\ UNCHANGED <<accounts, call>>

\* The awaited SELECT Account_Role settles: it threw, or it read the table.
\* checkRoleHierarchy keeping "target resolved" in a variable of the module:
\* once any request has looked a target up, the next one skips the lookup
\* and the comparison.
checkRoleHierarchyQuery_Memo(s) ==
    /\ reqs[s].pc = "checkRoleHierarchy:query"
    /\ \E failed \in BOOLEAN :
        LET r == reqs[s]
            q == SelectRole(accounts, parseInt(r.paramId).n)
            memo == \E t \in DOMAIN reqs \ {s} : reqs[t].lookups > 0
            o == IF memo THEN CallNext ELSE checkRoleHierarchyResume(r, failed, q)
        IN  reqs' = [reqs EXCEPT ![s] =
                        [Apply(r, o) EXCEPT
                            !.lookups = r.lookups + 1,
                            !.queried = IF failed THEN r.queried ELSE q,
                            !.queryFailed = failed,
                            !.targetUserRole =
                                IF o.kind = "next" THEN q.account_role ELSE r.targetUserRole]]
    /\ UNCHANGED <<accounts, call>>

\* checkRoleHierarchy comparing the role of the actor's row, read from the
\* table, in place of the role of the claims.
checkRoleHierarchyQuery_StoredActorRole(s) ==
    /\ reqs[s].pc = "checkRoleHierarchy:query"
    /\ \E failed \in BOOLEAN :
        LET r == reqs[s]
            q == SelectRole(accounts, parseInt(r.paramId).n)
            stored == IF r.claims.id \in Ids /\ accounts[r.claims.id].exists
                      THEN accounts[r.claims.id].role ELSE r.claims.role
            o == checkRoleHierarchyResume([r EXCEPT !.claims.role = stored], failed, q)
        IN  reqs' = [reqs EXCEPT ![s] =
                        [Apply(r, o) EXCEPT
                            !.lookups = r.lookups + 1,
                            !.queried = IF failed THEN r.queried ELSE q,
                            !.queryFailed = failed,
                            !.targetUserRole =
                                IF o.kind = "next" THEN q.account_role ELSE r.targetUserRole]]
    /\ UNCHANGED <<accounts, call>>

checkRoleHierarchyQuery(s) ==
    /\ reqs[s].pc = "checkRoleHierarchy:query"
    /\ \E failed \in BOOLEAN :
        LET r == reqs[s]
            q == SelectRole(accounts, parseInt(r.paramId).n)
            o == checkRoleHierarchyResume(r, failed, q)
        IN  reqs' = [reqs EXCEPT ![s] =
                        [Apply(r, o) EXCEPT
                            !.lookups = r.lookups + 1,
                            !.queried = IF failed THEN r.queried ELSE q,
                            !.queryFailed = failed,
                            !.targetUserRole =
                                IF o.kind = "next" THEN q.account_role ELSE r.targetUserRole]]
    /\ UNCHANGED <<accounts, call>>

checkRoleChangeHierarchy(s) ==
    /\ reqs[s].pc = "checkRoleChangeHierarchy"
    /\ Step(s, checkRoleChangeHierarchyEntry(reqs[s]))
    /\ UNCHANGED <<accounts, call>>

\* checkRoleChangeHierarchy with two queries: one for the row, one for its role.
checkRoleChangeHierarchyQuery_TwoQueries(s) ==
    /\ reqs[s].pc = "checkRoleChangeHierarchy:query"
    /\ \E failed \in BOOLEAN :
        LET r == reqs[s]
            q == SelectRole(accounts, parseInt(r.paramId).n)
        IN  reqs' = [reqs EXCEPT ![s] =
                        [Apply(r, checkRoleChangeHierarchyResume(r, failed, q)) EXCEPT
                            !.lookups = r.lookups + (IF failed \/ q.rowCount = 0 THEN 1 ELSE 2),
                            !.queried = IF failed THEN r.queried ELSE q,
                            !.queryFailed = failed]]
    /\ UNCHANGED <<accounts, call>>

\* checkRoleChangeHierarchy that applies the new role itself once it allows.
checkRoleChangeHierarchyQuery_Updates(s) ==
    /\ reqs[s].pc = "checkRoleChangeHierarchy:query"
    /\ \E failed \in BOOLEAN :
        LET r == reqs[s]
            q == SelectRole(accounts, parseInt(r.paramId).n)
            o == checkRoleChangeHierarchyResume(r, failed, q)
        IN  /\ reqs' = [reqs EXCEPT ![s] =
                            [Apply(r, o) EXCEPT
                                !.lookups = r.lookups + 1,
                                !.queried = IF failed THEN r.queried ELSE q,
                                !.queryFailed = failed]]
            /\ accounts' = IF o.kind = "next"
                           THEN [accounts EXCEPT
                                    ![parseInt(r.paramId).n].role = parseInt(r.bodyRole).n]
                           ELSE accounts
    /\ UNCHANGED call

checkRoleChangeHierarchyQuery(s) ==
    /\ reqs[s].pc = "checkRoleChangeHierarchy:query"
    /\ \E failed \in BOOLEAN :
        LET r == reqs[s]
            q == SelectRole(accounts, parseInt(r.paramId).n)
        IN  reqs' = [reqs EXCEPT ![s] =
                        [Apply(r, checkRoleChangeHierarchyResume(r, failed, q)) EXCEPT
                            !.lookups = r.lookups + 1,
                            !.queried = IF failed THEN r.queried ELSE q,
                            !.queryFailed = failed]]
    /\ UNCHANGED <<accounts, call>>

----------------------------------------------------------------------------
\* controllers/adminController.ts

Wrote(r, op, id, roleAtWrite, newRole) ==
    [r EXCEPT !.writes = Append(r.writes,
        [op |-> op, id |-> id, roleAtWrite |-> roleAtWrite, newRole |-> newRole])]

\* validateUserUniqueness answers the request itself when the email, the
\* username or the phone is taken.
createUser(s) ==
    /\ reqs[s].pc = "createUser"
    /\ \E userExists \in BOOLEAN :
        Step(s, IF userExists THEN SendError(400, "User already exists")
                ELSE Await("createUser:transaction"))
    /\ UNCHANGED <<accounts, call>>

\* The transaction inserts the row with the role of the body, or fails and
\* inserts nothing. The serial has an identifier left while the table has
\* fewer than MaxId rows.
createUserTransaction(s) ==
    /\ reqs[s].pc = "createUser:transaction"
    /\ LET r        == reqs[s]
           userRole == parseInt(r.bodyRole)
           id       == RowCount(accounts) + 1
       IN  \/ /\ Step(s, SendError(500, "Failed to create user"))
              /\ UNCHANGED accounts
           \/ /\ ~isNaN(userRole)
              /\ id \in Ids
              /\ accounts' = [accounts EXCEPT ![id] = NewRow(userRole.n)]
              /\ reqs' = [reqs EXCEPT ![s] =
                    Apply(Wrote(r, "insert", id, 0, userRole.n),
                          SendSuccess("User created successfully by admin"))]
    /\ UNCHANGED call

getAllUsers(s) ==
    /\ reqs[s].pc = "getAllUsers"
    /\ \E failed \in BOOLEAN :
        Step(s, IF failed THEN SendError(500, "Failed to fetch users")
                ELSE SendSuccess("Retrieved users"))
    /\ UNCHANGED <<accounts, call>>

searchUsers(s) ==
    /\ reqs[s].pc = "searchUsers"
    /\ \E fieldsToSearch \in {0, 1}, failed \in BOOLEAN :
        Step(s, IF fieldsToSearch = 0
                THEN SendError(400, "No valid search fields specified")
                ELSE IF failed THEN SendError(500, "Failed to search users")
                ELSE SendSuccess("Found users"))
    /\ UNCHANGED <<accounts, call>>

getDashboardStats(s) ==
    /\ reqs[s].pc = "getDashboardStats"
    /\ \E failed \in BOOLEAN :
        Step(s, IF failed THEN SendError(500, "Failed to fetch statistics")
                ELSE SendSuccess("Dashboard statistics retrieved"))
    /\ UNCHANGED <<accounts, call>>

getUserById(s) ==
    /\ reqs[s].pc = "getUserById"
    /\ \E failed \in BOOLEAN :
        LET userId == parseInt(reqs[s].paramId)
        IN  IF isNaN(userId) THEN Step(s, SendError(400, "Invalid user ID"))
            ELSE StepAfterRead(s,
                    IF failed THEN SendError(500, "Failed to fetch user details")
                    ELSE IF SelectRole(accounts, userId.n).rowCount = 0
                         THEN SendError(404, "User not found")
                    ELSE SendSuccess("User details retrieved successfully"))
    /\ UNCHANGED <<accounts, call>>

\* The bodies a PUT /users/:id may carry: each field absent or given.
UpdateBodies ==
    [accountStatus : {"undefined", "active", "suspended", "deleted"},
     emailVerified : {"undefined", "true"},
     phoneVerified : {"undefined", "true"}]

UpdatedRow(row, body) ==
    [row EXCEPT
        !.status = IF body.accountStatus # "undefined" THEN body.accountStatus ELSE @,
        !.emailVerified = IF body.emailVerified # "undefined"
                          THEN body.emailVerified = "true" ELSE @,
        !.phoneVerified = IF body.phoneVerified # "undefined"
                          THEN body.phoneVerified = "true" ELSE @]

\* UPDATE Account SET ... WHERE Account_ID = $n RETURNING *; reading rows[0]
\* of an empty result throws inside the try.
updateUser(s) ==
    /\ reqs[s].pc = "updateUser"
    /\ LET r      == reqs[s]
           userId == parseInt(r.paramId)
       IN  \E body \in UpdateBodies :
            IF /\ body.accountStatus = "undefined"
               /\ body.emailVerified = "undefined"
               /\ body.phoneVerified = "undefined"
            THEN /\ Step(s, SendError(400, "No valid updates provided"))
                 /\ UNCHANGED accounts
            ELSE \/ /\ Step(s, SendError(500, "Failed to update user"))
                    /\ UNCHANGED accounts
                 \/ /\ ~isNaN(userId)
                    /\ SelectRole(accounts, userId.n).rowCount = 1
                    /\ accounts' = [accounts EXCEPT
                                        ![userId.n] = UpdatedRow(@, body)]
                    /\ reqs' = [reqs EXCEPT ![s] =
                          Apply(Wrote(r, "update", userId.n, accounts[userId.n].role, 0),
                                SendSuccess("User updated successfully"))]
    /\ UNCHANGED call

\* UPDATE Account SET Account_Status = 'deleted' WHERE Account_ID = $1 AND
\* Account_Status != 'deleted'
deleteUser(s) ==
    /\ reqs[s].pc = "deleteUser"
    /\ LET r      == reqs[s]
           userId == parseInt(r.paramId)
           hit    == /\ ~isNaN(userId)
                     /\ SelectRole(accounts, userId.n).rowCount = 1
                     /\ accounts[userId.n].status # "deleted"
       IN  \/ /\ Step(s, SendError(500, "Failed to delete user"))
              /\ UNCHANGED accounts
           \/ /\ ~isNaN(userId)
              /\ ~hit
              /\ Step(s, SendError(404, "User not found or already deleted"))
              /\ UNCHANGED accounts
           \/ /\ hit
              /\ accounts' = [accounts EXCEPT ![userId.n].status = "deleted"]
              /\ reqs' = [reqs EXCEPT ![s] =
                    Apply(Wrote(r, "delete", userId.n, accounts[userId.n].role, 0),
                          SendSuccess("User deleted successfully"))]
    /\ UNCHANGED call

\* resetUserPassword up to its transaction: SELECT Account_ID FROM Account
\* WHERE Account_ID = $1; the row must exist.
resetUserPassword(s) ==
    /\ reqs[s].pc = "resetUserPassword"
    /\ \E failed \in BOOLEAN :
        LET userId == parseInt(reqs[s].paramId)
        IN  StepAfterRead(s, IF failed \/ isNaN(userId)
                    THEN SendError(500, "Failed to reset password")
                    ELSE IF SelectRole(accounts, userId.n).rowCount = 0
                         THEN SendError(404, "User not found")
                    ELSE Await("resetUserPassword:transaction"))
    /\ UNCHANGED <<accounts, call>>

\* The transaction stores the new salted hash, or fails and stores nothing.
resetUserPasswordTransaction(s) ==
    /\ reqs[s].pc = "resetUserPassword:transaction"
    /\ LET r      == reqs[s]
           userId == parseInt(r.paramId).n
       IN  \/ /\ Step(s, SendError(500, "Failed to reset password"))
              /\ UNCHANGED accounts
           \/ /\ accounts' = [accounts EXCEPT ![userId].credential = "reset"]
              /\ reqs' = [reqs EXCEPT ![s] =
                    Apply(Wrote(r, "password", userId, accounts[userId].role, 0),
                          SendSuccess("Password reset successfully by admin"))]
    /\ UNCHANGED call

\* changeUserRole up to its UPDATE: SELECT * FROM Account WHERE Account_ID = $1
changeUserRole(s) ==
    /\ reqs[s].pc = "changeUserRole"
    /\ \E failed \in BOOLEAN :
        LET userId == parseInt(reqs[s].paramId)
        IN  StepAfterRead(s, IF failed \/ isNaN(userId)
                    THEN SendError(500, "Failed to change user role")
                    ELSE IF SelectRole(accounts, userId.n).rowCount = 0
                         THEN SendError(404, "User not found")
                    ELSE Await("changeUserRole:update"))
    /\ UNCHANGED <<accounts, call>>

\* UPDATE Account SET Account_Role = $1 WHERE Account_ID = $2 RETURNING *
changeUserRoleUpdate(s) ==
    /\ reqs[s].pc = "changeUserRole:update"
    /\ LET r       == reqs[s]
           userId  == parseInt(r.paramId).n
           newRole == parseInt(r.bodyRole)
       IN  \/ /\ Step(s, SendError(500, "Failed to change user role"))
              /\ UNCHANGED accounts
           \/ /\ ~isNaN(newRole)
              /\ accounts' = [accounts EXCEPT ![userId].role = newRole.n]
              /\ reqs' = [reqs EXCEPT ![s] =
                    Apply(Wrote(r, "role", userId, accounts[userId].role, newRole.n),
                          SendSuccess("User role changed"))]
    /\ UNCHANGED call

----------------------------------------------------------------------------
\* The server.

Next ==
    \E s \in Slots :
        \/ Receive(s)
        \/ requireAdmin(s)
        \/ validateAdminCreateUser(s)
        \/ validateAdminUsersList(s)
        \/ validateUserSearch(s)
        \/ validateAdminPasswordReset(s)
        \/ validateAdminRoleChange(s)
        \/ validateRoleCreation(s)
        \/ checkRoleHierarchy(s)
        \/ checkRoleHierarchyQuery(s)
        \/ checkRoleChangeHierarchy(s)
        \/ checkRoleChangeHierarchyQuery(s)
        \/ createUser(s)
        \/ createUserTransaction(s)
        \/ getAllUsers(s)
        \/ searchUsers(s)
        \/ getDashboardStats(s)
        \/ getUserById(s)
        \/ updateUser(s)
        \/ deleteUser(s)
        \/ resetUserPassword(s)
        \/ resetUserPasswordTransaction(s)
        \/ changeUserRole(s)
        \/ changeUserRoleUpdate(s)

Spec == Init /\ [][Next]_vars

----------------------------------------------------------------------------
\* The exported functions called directly: a middleware on a request object
\* of the caller's making, with a next() that only records the call, or
\* canModifyUser on two roles.

Middleware ==
    {"requireAdmin", "validateRoleCreation", "validateRoleAssignment",
     "checkRoleHierarchy", "checkRoleChangeHierarchy"}

Invoke(s) ==
    /\ reqs[s].pc = "idle"
    /\ call = NoCall
    /\ \E mw \in Middleware, claims \in AllClaims :
        \E method \in IF mw = "checkRoleHierarchy" THEN {"PUT", "DELETE"} ELSE {"PUT"} :
        \E id \in IF mw \in {"checkRoleHierarchy", "checkRoleChangeHierarchy"}
                  THEN RawIds ELSE {undefined} :
        \E role \in IF mw \in {"validateRoleCreation", "validateRoleAssignment",
                                "checkRoleChangeHierarchy"}
                    THEN RawRoles ELSE {undefined} :
            reqs' = [reqs EXCEPT ![s] = NewRequest(<<mw>>, "none", method, claims, id, role)]
    /\ UNCHANGED <<accounts, call>>

CallCanModifyUser ==
    /\ call = NoCall
    /\ \A s \in DOMAIN reqs : reqs[s].pc = "idle"
    /\ \E modifierRole \in Roles, targetRole \in Roles :
        call' = [fn |-> "canModifyUser", modifierRole |-> modifierRole,
                 targetRole |-> targetRole,
                 result |-> canModifyUser(modifierRole, targetRole)]
    /\ UNCHANGED <<accounts, reqs>>

NextUnit ==
    \/ CallCanModifyUser
    \/ \E s \in Slots :
        \/ Invoke(s)
        \/ requireAdmin(s)
        \/ validateRoleCreation(s)
        \/ validateRoleAssignment(s)
        \/ checkRoleHierarchy(s)
        \/ checkRoleHierarchyQuery(s)
        \/ checkRoleChangeHierarchy(s)
        \/ checkRoleChangeHierarchyQuery(s)

SpecUnit == Init /\ [][NextUnit]_vars

\* Both: a request comes through the router or is handed to a middleware.
NextAll ==
    \/ Next
    \/ \E s \in Slots :
        \/ Invoke(s)
        \/ validateRoleAssignment(s)

SpecAll == Init /\ [][NextAll]_vars

----------------------------------------------------------------------------
\* The vocabulary of the specification, read off a request.

\* Handler h ran on the request (to its end).
Ran(r, h) == \E i \in 1..Len(r.trail) : r.trail[i] = h

\* Handler h called next(): ALLOW.
Passed(r, h) ==
    \E i \in 1..Len(r.chain) :
        /\ r.chain[i] = h
        /\ \/ r.step > i
           \/ r.step = i /\ r.pc = "forwarded"

\* Handler h answered the request itself.
Denied(r, h) == r.pc = "done" /\ r.responder = h

Routed(r) == r.route \in Routes

\* The reason code of the specification for a response.
DenyReason(r) ==
    CASE r.message = "Invalid role. Must be between 1-5" -> "INVALID_ROLE"
      [] r.message = "Validation failed" /\ "role" \in r.errors -> "INVALID_ROLE"
      [] r.message = "Cannot create user with higher role than your own" -> "ROLE_TOO_HIGH"
      [] r.message = "Cannot delete your own account" -> "SELF_ACTION"
      [] r.message = "Cannot change your own role" -> "SELF_ACTION"
      [] r.message = "Cannot delete user with equal or higher role" ->
            "INSUFFICIENT_HIERARCHY"
      [] r.message = "Cannot modify user with equal or higher role" ->
            "INSUFFICIENT_HIERARCHY"
      [] r.message = "Cannot change role of user with equal or higher role" ->
            "INSUFFICIENT_HIERARCHY"
      [] r.message = "Cannot promote user to higher role than your own" ->
            "PROMOTION_CEILING"
      [] r.message = "Admins can only assign roles up to admin level" -> "TIER_CEILING"
      [] OTHER -> "OTHER"

\* The target-role lookup of the request's gate found a row.
FoundTarget(r) == r.lookups = 1 /\ ~r.queryFailed /\ r.queried.rowCount = 1

\* body.role is an integer, and its value.
RoleIsInteger(r) == isIntText(r.bodyRole)

RequestedRole(r) == parseInt(r.bodyRole).n

TargetId(r) == parseInt(r.paramId)

SelfTarget(r) == r.claims.present /\ ~isNaN(TargetId(r)) /\ TargetId(r).n = r.claims.id

----------------------------------------------------------------------------
\* C1. checkRoleHierarchy, on the update, delete and password-reset routes
\* and called directly, with any acting role and any target role: once its
\* lookup has found the target (a self-delete never gets that far), it calls
\* next() iff the acting role is strictly above the target's, and otherwise
\* answers 403 with the reason INSUFFICIENT_HIERARCHY, whatever the method.
C1_ModifyOrDeleteIffStrictlyAbove ==
    \A s \in Slots :
        LET r == reqs[s]
        IN  (Ran(r, "checkRoleHierarchy") /\ FoundTarget(r)) =>
                IF r.claims.role > r.queried.account_role
                THEN /\ Passed(r, "checkRoleHierarchy")
                     /\ r.targetUserRole = r.queried.account_role
                ELSE /\ Denied(r, "checkRoleHierarchy")
                     /\ r.status = 403
                     /\ DenyReason(r) = "INSUFFICIENT_HIERARCHY"

\* An administrator of role 4 has soft-deleted an account of role 3.
C1_Witness ==
    \E s \in Slots :
        LET r == reqs[s]
        IN  /\ r.route = DELETE_USER
            /\ r.claims.role = 4
            /\ FoundTarget(r) /\ r.queried.account_role = 3
            /\ Passed(r, "checkRoleHierarchy")
            /\ r.pc = "done" /\ r.status = 200
            /\ Len(r.writes) = 1 /\ r.writes[1].op = "delete"

----------------------------------------------------------------------------
\* C2. validateRoleCreation, for every acting role and every integer
\* body.role: a role outside 1..5 is answered with INVALID_ROLE; a role in
\* 1..5 passes iff it is at most the acting role, and is otherwise answered
\* 403 with ROLE_TOO_HIGH.
C2_CreateIffAtMostOwnRole ==
    \A s \in Slots :
        LET r == reqs[s]
        IN  (Ran(r, "validateRoleCreation") /\ r.claims.present /\ RoleIsInteger(r)) =>
                IF RequestedRole(r) \notin Roles
                THEN /\ Denied(r, "validateRoleCreation")
                     /\ DenyReason(r) = "INVALID_ROLE"
                ELSE IF RequestedRole(r) <= r.claims.role
                THEN Passed(r, "validateRoleCreation")
                ELSE /\ Denied(r, "validateRoleCreation")
                     /\ r.status = 403
                     /\ DenyReason(r) = "ROLE_TOO_HIGH"

\* An administrator of role 3 has created an account of role 3.
C2_Witness ==
    \E s \in Slots :
        LET r == reqs[s]
        IN  /\ r.route = CREATE_USER
            /\ r.claims.role = 3
            /\ RequestedRole(r) = 3
            /\ Passed(r, "validateRoleCreation")
            /\ r.pc = "done" /\ r.status = 200
            /\ Len(r.writes) = 1 /\ r.writes[1].newRole = 3

----------------------------------------------------------------------------
\* C3. checkRoleChangeHierarchy, for acting, current and requested roles in
\* 1..5, a target other than the actor and a target that exists: it calls
\* next() iff requested <= acting, current < acting and not (acting = 3 and
\* requested > 3), and otherwise answers 403; acting 3 on a target of role 3
\* is INSUFFICIENT_HIERARCHY even for the demotion to 2.
C3_TargetRole(r) ==
    IF r.lookups > 0 THEN r.queried.account_role ELSE accounts[TargetId(r).n].role

C3_InScope(r) ==
    /\ Ran(r, "checkRoleChangeHierarchy")
    /\ r.claims.present
    /\ RoleIsInteger(r) /\ RequestedRole(r) \in Roles
    /\ ~isNaN(TargetId(r)) /\ TargetId(r).n # r.claims.id
    /\ IF r.lookups > 0 THEN FoundTarget(r)
       ELSE TargetId(r).n \in Ids /\ accounts[TargetId(r).n].exists

----------------------------------------------------------------------------
\* C4. The order of the role-change rules, on PUT /users/:id/role. The rules
\* an input violates, by name:
C4_Violates(r, rule) ==
    CASE rule = "SELF_ACTION" -> TargetId(r).n = r.claims.id
      [] rule = "INVALID_ROLE" -> RoleErrors(r) # {}
      [] rule = "PROMOTION_CEILING" ->
            RoleIsInteger(r) /\ RequestedRole(r) > r.claims.role
      [] rule = "INSUFFICIENT_HIERARCHY" -> C3_TargetRole(r) >= r.claims.role
      [] rule = "TIER_CEILING" ->
            r.claims.role = 3 /\ RoleIsInteger(r) /\ RequestedRole(r) > 3

\* The first rule of `order` the request violates, ALLOW when it violates none.
RECURSIVE C4_FirstViolated(_, _)
C4_FirstViolated(r, order) ==
    IF order = <<>> THEN "ALLOW"
    ELSE IF C4_Violates(r, Head(order)) THEN Head(order)
    ELSE C4_FirstViolated(r, Tail(order))

\* What the chain reported: ALLOW when checkRoleChangeHierarchy called next().
C4_Reported(r) ==
    IF Passed(r, "checkRoleChangeHierarchy") THEN "ALLOW" ELSE DenyReason(r)

\* A role change that got past requireAdmin and has been decided, with a
\* well-formed id of a row that exists and a lookup that did not fail.
C4_InScope(r) ==
    /\ r.route = CHANGE_ROLE
    /\ Ended(r)
    /\ Passed(r, "requireAdmin")
    /\ IdErrors(r) = {}
    /\ TargetId(r).n \in Ids /\ accounts[TargetId(r).n].exists
    /\ ~r.queryFailed

\* C4 as stated: the reported reason is that of the first violated rule in
\* the order SELF_ACTION, INVALID_ROLE, PROMOTION_CEILING,
\* INSUFFICIENT_HIERARCHY, TIER_CEILING.
C4_OrderAsStated ==
    \A s \in Slots :
        C4_InScope(reqs[s]) =>
            C4_Reported(reqs[s]) =
                C4_FirstViolated(reqs[s],
                    <<"SELF_ACTION", "INVALID_ROLE", "PROMOTION_CEILING",
                      "INSUFFICIENT_HIERARCHY", "TIER_CEILING">>)

\* C4, amended: validateAdminRoleChange runs before checkRoleChangeHierarchy,
\* so the order is INVALID_ROLE, SELF_ACTION, PROMOTION_CEILING,
\* INSUFFICIENT_HIERARCHY, TIER_CEILING, and the reason reported is that of
\* the first rule violated in this order.
C4_OrderInvalidRoleFirst ==
    \A s \in Slots :
        C4_InScope(reqs[s]) =>
            C4_Reported(reqs[s]) =
                C4_FirstViolated(reqs[s],
                    <<"INVALID_ROLE", "SELF_ACTION", "PROMOTION_CEILING",
                      "INSUFFICIENT_HIERARCHY", "TIER_CEILING">>)

\* An admin asked to give itself role 6: the answer is INVALID_ROLE.
C4_Witness ==
    \E s \in Slots :
        LET r == reqs[s]
        IN  /\ C4_InScope(r)
            /\ SelfTarget(r)
            /\ RoleIsInteger(r) /\ RequestedRole(r) = 6
            /\ r.pc = "done" /\ DenyReason(r) = "INVALID_ROLE"

----------------------------------------------------------------------------
\* A role change whose URL names the actor's own id.
C5_SelfRoleChange(r) ==
    r.route = CHANGE_ROLE /\ r.claims.present /\ IdErrors(r) = {} /\ SelfTarget(r)

\* C5 as stated, for the actors that requireAdmin lets through: a role change
\* on oneself is answered with SELF_ACTION whatever the requested role is.
C5_SelfChangeAlwaysSelfAction ==
    \A s \in Slots :
        LET r == reqs[s]
        IN  (C5_SelfRoleChange(r) /\ Ended(r) /\ Passed(r, "requireAdmin")) =>
                r.pc = "done" /\ DenyReason(r) = "SELF_ACTION"

\* C5, amended: a role change on oneself is denied for every acting role,
\* stored role and requested role, and never writes the role; the reason is
\* SELF_ACTION when the acting role is at least 3 and the requested role is an
\* integer in 1..5, and INVALID_ROLE (from validateAdminRoleChange, which runs
\* first) when the acting role is at least 3 and the requested role is not.
C5_SelfChangeDenied ==
    \A s \in Slots :
        LET r == reqs[s]
        IN  C5_SelfRoleChange(r) =>
                /\ r.writes = <<>>
                /\ ~Passed(r, "checkRoleChangeHierarchy")
                /\ ~Ran(r, "changeUserRole")
                /\ r.lookups = 0
                /\ Ended(r) =>
                    /\ r.pc = "done" /\ r.status \in {400, 403}
                    /\ (r.claims.role >= 3 /\ RoleErrors(r) = {}) =>
                            /\ Denied(r, "checkRoleChangeHierarchy")
                            /\ DenyReason(r) = "SELF_ACTION"
                    /\ (r.claims.role >= 3 /\ RoleErrors(r) # {}) =>
                            /\ Denied(r, "validateAdminRoleChange")
                            /\ DenyReason(r) = "INVALID_ROLE"

\* A super admin whose own row holds role 3 asked to give itself role 2, which
\* the hierarchy rules alone would allow, and was answered SELF_ACTION.
C5_Witness ==
    \E s \in Slots :
        LET r == reqs[s]
        IN  /\ C5_SelfRoleChange(r)
            /\ r.claims.role = 4
            /\ accounts[r.claims.id].exists /\ accounts[r.claims.id].role = 3
            /\ RequestedRole(r) = 2
            /\ r.pc = "done" /\ DenyReason(r) = "SELF_ACTION"

----------------------------------------------------------------------------
\* C6. A DELETE on oneself: checkRoleHierarchy answers SELF_ACTION before any
\* lookup, for every acting role and whatever role the row holds, and on the
\* route deleteUser never runs, so the status is never set to deleted.
C6_SelfDeleteBlocked ==
    \A s \in Slots :
        LET r == reqs[s]
        IN  /\ (Ran(r, "checkRoleHierarchy") /\ r.method = "DELETE" /\ SelfTarget(r)) =>
                    /\ Denied(r, "checkRoleHierarchy")
                    /\ DenyReason(r) = "SELF_ACTION"
                    /\ r.lookups = 0
            /\ (r.route = DELETE_USER /\ SelfTarget(r)) =>
                    /\ r.writes = <<>>
                    /\ ~Ran(r, "deleteUser")
                    /\ ~Passed(r, "checkRoleHierarchy")
                    /\ accounts[r.claims.id].status # "deleted"

\* An owner whose own row holds role 3 asked to delete itself.
C6_Witness ==
    \E s \in Slots :
        LET r == reqs[s]
        IN  /\ r.route = DELETE_USER
            /\ SelfTarget(r)
            /\ r.claims.role = 5
            /\ accounts[r.claims.id].exists /\ accounts[r.claims.id].role = 3
            /\ Denied(r, "checkRoleHierarchy")
            /\ DenyReason(r) = "SELF_ACTION"

----------------------------------------------------------------------------
\* The handler a route ends in.
Operation(r) == r.chain[Len(r.chain)]

\* C7. On the read routes (list, search, dashboard, get by id) a request with
\* claims passes requireAdmin iff its role is at least 3; the operation runs
\* only then, and then it runs unless the route's validator rejected the
\* query, whatever the row asked for.
C7_ViewIffAdmin ==
    \A s \in Slots :
        LET r == reqs[s]
        IN  (r.route \in ReadRoutes /\ r.claims.present) =>
                /\ Ran(r, "requireAdmin") =>
                        (Passed(r, "requireAdmin") <=> r.claims.role >= 3)
                /\ Ran(r, Operation(r)) => r.claims.role >= 3
                /\ (Ended(r) /\ r.claims.role >= 3 /\ r.errors = {}) =>
                        Ran(r, Operation(r))

\* An admin (3) has read the row of an owner (5).
C7_Witness ==
    \E s \in Slots :
        LET r == reqs[s]
        IN  /\ r.route = GET_USER
            /\ r.claims.role = 3
            /\ ~isNaN(TargetId(r)) /\ TargetId(r).n \in Ids
            /\ accounts[TargetId(r).n].role = 5
            /\ Ran(r, "getUserById")
            /\ r.status = 200

----------------------------------------------------------------------------
\* C8. canModifyUser(modifierRole, targetRole), for all roles in 1..5: true
\* when modifierRole is 5, otherwise true iff modifierRole > targetRole.
C8_CanModifyUser ==
    call.fn = "canModifyUser" =>
        call.result = (call.modifierRole = 5 \/ call.modifierRole > call.targetRole)

\* canModifyUser(5, 5) was called and returned true.
C8_Witness ==
    call.fn = "canModifyUser" /\ call.modifierRole = 5 /\ call.targetRole = 5 /\ call.result

----------------------------------------------------------------------------
\* C9. checkRoleHierarchy and canModifyUser on the same two roles: for owner
\* against owner the middleware answers INSUFFICIENT_HIERARCHY and
\* canModifyUser is true; for every other pair the middleware calls next()
\* iff canModifyUser is true.
C9_DivergeOnlyOwnerOwner ==
    /\ \A s \in Slots :
        LET r == reqs[s]
        IN  (Ran(r, "checkRoleHierarchy") /\ FoundTarget(r)) =>
                LET acting == r.claims.role
                    target == r.queried.account_role
                IN  IF acting = 5 /\ target = 5
                    THEN /\ Denied(r, "checkRoleHierarchy")
                         /\ DenyReason(r) = "INSUFFICIENT_HIERARCHY"
                         /\ canModifyUser(acting, target)
                    ELSE Passed(r, "checkRoleHierarchy") <=> canModifyUser(acting, target)
    /\ (call.fn = "canModifyUser" /\ call.modifierRole = 5 /\ call.targetRole = 5) =>
            call.result

\* An owner was refused the deletion of another owner.
C9_Witness ==
    \E s \in Slots :
        LET r == reqs[s]
        IN  /\ Ran(r, "checkRoleHierarchy") /\ FoundTarget(r)
            /\ r.method = "DELETE"
            /\ r.claims.role = 5 /\ r.queried.account_role = 5
            /\ TargetId(r).n # r.claims.id
            /\ Denied(r, "checkRoleHierarchy")

----------------------------------------------------------------------------
\* C10. A request without claims, on every route: requireAdmin answers 401
\* and nothing else runs: no other handler, no lookup, no write.
C10_NoClaimsEndsAt401 ==
    \A s \in Slots :
        LET r == reqs[s]
        IN  (Routed(r) /\ ~r.claims.present) =>
                \/ r.pc = "requireAdmin"
                \/ /\ r.pc = "done"
                   /\ r.status = 401
                   /\ r.responder = "requireAdmin"
                   /\ r.trail = <<"requireAdmin">>
                   /\ r.lookups = 0
                   /\ r.writes = <<>>

\* A role change without claims was answered 401.
C10_Witness ==
    \E s \in Slots :
        LET r == reqs[s]
        IN  /\ r.route = CHANGE_ROLE
            /\ ~r.claims.present
            /\ r.pc = "done" /\ r.status = 401

----------------------------------------------------------------------------
\* The hierarchy gate of a request, and the target it names.
Gates == {"checkRoleHierarchy", "checkRoleChangeHierarchy"}

GateRan(r) == \E g \in Gates : Ran(r, g)

TargetExists(r) ==
    ~isNaN(TargetId(r)) /\ TargetId(r).n \in Ids /\ accounts[TargetId(r).n].exists

\* A gate has finished on a request with claims and a numeric id that no row
\* has, and its lookup, if it made one, did not fail.
C11_InScope(r) ==
    /\ GateRan(r)
    /\ r.claims.present
    /\ ~isNaN(TargetId(r))
    /\ ~TargetExists(r)
    /\ ~r.queryFailed

\* C11 as stated: a target that does not exist is answered 404 whatever the
\* actor, the operation and the requested role are.
C11_MissingTargetAlways404 ==
    \A s \in Slots :
        C11_InScope(reqs[s]) =>
            reqs[s].status = 404 /\ reqs[s].message = "User not found"

\* C11, amended: the rules that do not need the target's role come before the
\* lookup. A target that does not exist is answered 404 by the gate, after
\* one lookup, except that a DELETE on oneself and a role change on oneself
\* are answered SELF_ACTION, a role change to a role above the actor's is
\* answered PROMOTION_CEILING and a role change whose role is not a number is
\* answered 400, all without a lookup.
C11_MissingTarget404AfterEarlyRules ==
    \A s \in Slots :
        LET r == reqs[s]
            change == Ran(r, "checkRoleChangeHierarchy")
        IN  C11_InScope(r) =>
                /\ r.pc = "done"
                /\ r.responder \in Gates
                /\ IF ~change /\ r.method = "DELETE" /\ SelfTarget(r)
                   THEN DenyReason(r) = "SELF_ACTION" /\ r.lookups = 0
                   ELSE IF change /\ isNaN(parseInt(r.bodyRole))
                   THEN /\ r.status = 400 /\ r.message = "Invalid user ID or role"
                        /\ r.lookups = 0
                   ELSE IF change /\ SelfTarget(r)
                   THEN DenyReason(r) = "SELF_ACTION" /\ r.lookups = 0
                   ELSE IF change /\ RequestedRole(r) > r.claims.role
                   THEN DenyReason(r) = "PROMOTION_CEILING" /\ r.lookups = 0
                   ELSE /\ r.status = 404 /\ r.message = "User not found"
                        /\ r.lookups = 1 /\ r.queried.rowCount = 0

\* An owner asked to give role 2 to an id that no row has: 404.
C11_Witness ==
    \E s \in Slots :
        LET r == reqs[s]
        IN  /\ r.route = CHANGE_ROLE
            /\ C11_InScope(r)
            /\ r.claims.role = 5 /\ RequestedRole(r) = 2
            /\ r.status = 404 /\ r.responder = "checkRoleChangeHierarchy"

----------------------------------------------------------------------------
\* The reasons of the specification.
Reasons ==
    {"INVALID_ROLE", "ROLE_TOO_HIGH", "SELF_ACTION", "INSUFFICIENT_HIERARCHY",
     "PROMOTION_CEILING", "TIER_CEILING"}

\* What the rules say of a request's inputs and of the role its lookup read,
\* in the order the route applies them.
C12_PolicyReason(r) ==
    CASE r.route = CREATE_USER ->
            IF RoleErrors(r) # {} THEN "INVALID_ROLE"
            ELSE IF RequestedRole(r) > r.claims.role THEN "ROLE_TOO_HIGH"
            ELSE "ALLOW"
      [] r.route \in {UPDATE_USER, RESET_PASSWORD} ->
            IF C3_TargetRole(r) >= r.claims.role THEN "INSUFFICIENT_HIERARCHY"
            ELSE "ALLOW"
      [] r.route = DELETE_USER ->
            IF SelfTarget(r) THEN "SELF_ACTION"
            ELSE IF C3_TargetRole(r) >= r.claims.role THEN "INSUFFICIENT_HIERARCHY"
            ELSE "ALLOW"
      [] r.route = CHANGE_ROLE ->
            C4_FirstViolated(r,
                <<"INVALID_ROLE", "SELF_ACTION", "PROMOTION_CEILING",
                  "INSUFFICIENT_HIERARCHY", "TIER_CEILING">>)
      [] OTHER -> "ALLOW"

\* The request reached the rules: it passed requireAdmin, the only validation
\* error it may have is that of the role, its target exists (a creation has
\* none) and its lookup did not fail.
C12_Decided(r) ==
    /\ Ended(r)
    /\ Passed(r, "requireAdmin")
    /\ r.errors \subseteq {"role"}
    /\ r.route \in {CREATE_USER, UPDATE_USER, DELETE_USER, RESET_PASSWORD, CHANGE_ROLE}
    /\ r.route # CREATE_USER => (IdErrors(r) = {} /\ TargetExists(r))
    /\ ~r.queryFailed

----------------------------------------------------------------------------
\* Every handler in front of the route's operation called next().
PassedAllGates(r) ==
    /\ r.chain # <<>>
    /\ \A i \in 1..(Len(r.chain) - 1) : Passed(r, r.chain[i])

\* The rules allow the request, on its inputs and on the role its lookup read.
C13_RulesAllow(r) ==
    /\ r.claims.present /\ r.claims.role >= ADMIN
    /\ r.errors = {}
    /\ CASE r.route = CREATE_USER ->
                RequestedRole(r) \in Roles /\ RequestedRole(r) <= r.claims.role
         [] r.route \in {UPDATE_USER, DELETE_USER, RESET_PASSWORD} ->
                /\ FoundTarget(r)
                /\ r.claims.role > r.queried.account_role
                /\ r.route = DELETE_USER => ~SelfTarget(r)
         [] r.route = CHANGE_ROLE ->
                /\ FoundTarget(r)
                /\ ~SelfTarget(r)
                /\ RequestedRole(r) \in Roles /\ RequestedRole(r) <= r.claims.role
                /\ r.claims.role > r.queried.account_role
         [] OTHER -> FALSE

\* What holds of a request in every state: it wrote only if every gate in
\* front of its operation had called next() and the rules allow it, and a
\* request that a gate answered or that threw wrote nothing.
C13_WroteOnlyIfAllowed ==
    \A s \in DOMAIN reqs :
        LET r == reqs[s]
        IN  /\ r.writes # <<>> => (PassedAllGates(r) /\ C13_RulesAllow(r))
            /\ (r.pc = "done" /\ r.responder # Operation(r)) => r.writes = <<>>
            /\ r.pc = "threw" => r.writes = <<>>

\* A step changes the table only as the write of a request that is in its
\* operation, past every gate, and that the rules allow.
C13_TableStep ==
    accounts' # accounts =>
        \E s \in DOMAIN reqs :
            /\ reqs[s].pc \in {"createUser:transaction", "updateUser", "deleteUser",
                               "resetUserPassword:transaction", "changeUserRole:update"}
            /\ PassedAllGates(reqs[s])
            /\ C13_RulesAllow(reqs[s])
            /\ Len(reqs'[s].writes) = Len(reqs[s].writes) + 1

\* C13. A mutation of the store (insert, update, soft delete, password reset,
\* role update) belongs to a request whose gates all allowed it, and comes
\* after them; a request answered 401, 403, 404, 400 or 500 by a gate
\* never mutates the store.
C13_MutationOnlyAfterAllow == []C13_WroteOnlyIfAllowed /\ [][C13_TableStep]_vars

\* An admin (3) has reset the password of an account of role 2.
C13_Witness ==
    \E s \in DOMAIN reqs :
        LET r == reqs[s]
        IN  /\ r.route = RESET_PASSWORD
            /\ r.claims.role = 3 /\ r.queried.account_role = 2
            /\ PassedAllGates(r)
            /\ Len(r.writes) = 1 /\ r.writes[1].op = "password"
            /\ accounts[TargetId(r).n].credential = "reset"

----------------------------------------------------------------------------
\* C14. When the lookup of the target's role fails (the awaited query
\* rejects: an error of the store, a cancellation, a timeout), the gate has
\* made that one lookup and no other, answers 500 itself and does not call
\* next(): the operation never runs and nothing is written.
C14_FailedLookupEndsAt500 ==
    \A s \in DOMAIN reqs :
        LET r == reqs[s]
        IN  /\ r.lookups <= 1
            /\ r.queryFailed =>
                    /\ r.lookups = 1
                    /\ r.pc = "done" /\ r.status = 500
                    /\ r.responder \in Gates
                    /\ ~Passed(r, r.responder)
                    /\ r.trail[Len(r.trail)] = r.responder
                    /\ r.writes = <<>>

\* The lookup of a DELETE by an owner failed: 500, and the row is not deleted.
C14_Witness ==
    \E s \in DOMAIN reqs :
        LET r == reqs[s]
        IN  /\ r.route = DELETE_USER
            /\ r.claims.role = 5
            /\ r.queryFailed
            /\ TargetExists(r) /\ accounts[TargetId(r).n].status = "active"
            /\ r.status = 500 /\ r.responder = "checkRoleHierarchy"

----------------------------------------------------------------------------
\* C15 as stated: a gated request on another principal reads the target once
\* in all, the gate's lookup; nothing reads it again before the write.
C15_TargetReadOnce ==
    \A s \in DOMAIN reqs :
        LET r == reqs[s]
        IN  (GateRan(r) /\ r.claims.present /\ ~SelfTarget(r)) =>
                r.lookups + r.opReads <= 1

\* C15, amended: the gate reads the target's role at most once, and exactly
\* once before it calls next(). updateUser and deleteUser read nothing
\* before their write. resetUserPassword (SELECT Account_ID) and
\* changeUserRole (SELECT *, the role included, for previousRole) read the
\* target once more between the gate's decision and their write.
C15_GateReadsOnceOperationMayReread ==
    \A s \in DOMAIN reqs :
        LET r == reqs[s]
        IN  /\ r.lookups <= 1
            /\ (\E g \in Gates : Passed(r, g)) => r.lookups = 1
            /\ (r.writes # <<>> /\ r.route \in {UPDATE_USER, DELETE_USER}) =>
                    r.lookups = 1 /\ r.opReads = 0
            /\ (r.writes # <<>> /\ r.route \in {RESET_PASSWORD, CHANGE_ROLE}) =>
                    r.lookups = 1 /\ r.opReads = 1

\* An owner changed the role of another account: the gate read the role once
\* and changeUserRole read the row again before the UPDATE.
C15_Witness ==
    \E s \in DOMAIN reqs :
        LET r == reqs[s]
        IN  /\ r.route = CHANGE_ROLE
            /\ r.claims.role = 5 /\ ~SelfTarget(r)
            /\ r.lookups = 1 /\ r.opReads = 1
            /\ Len(r.writes) = 1 /\ r.writes[1].op = "role"

----------------------------------------------------------------------------
\* Where a request is while one of its gates runs.
GatePcs ==
    {"requireAdmin", "validateRoleCreation", "checkRoleHierarchy",
     "checkRoleHierarchy:query", "checkRoleChangeHierarchy",
     "checkRoleChangeHierarchy:query"}

\* A step of a gate leaves every row as it was.
C16_GateStep ==
    \A s \in DOMAIN reqs :
        (reqs[s].pc \in GatePcs /\ reqs'[s] # reqs[s]) => accounts' = accounts

\* C16. No step of requireAdmin, validateRoleCreation, checkRoleHierarchy or
\* checkRoleChangeHierarchy, whatever its outcome (next(), a denial, 404,
\* 500), changes the role, the status or the verification flags of any row.
C16_GateNeverMutates == [][C16_GateStep]_vars

\* checkRoleChangeHierarchy has allowed a change to role 4 and the row still
\* holds the role 2 that the gate read.
C16_Witness ==
    \E s \in DOMAIN reqs :
        LET r == reqs[s]
        IN  /\ r.pc = "changeUserRole"
            /\ Passed(r, "checkRoleChangeHierarchy")
            /\ RequestedRole(r) = 4
            /\ r.queried.account_role = 2
            /\ accounts[TargetId(r).n].role = 2
            /\ r.writes = <<>>

----------------------------------------------------------------------------
\* Two requests in flight at once. Node runs one handler at a time and lets
\* another request in at every await, so the steps of the two requests
\* interleave at the granularity of the actions. The two requests come from
\* two administrators, with well-formed inputs: the first deletes, resets a
\* password or changes a role, the second changes a role. Each
\* administrator's own row lies outside the rows 1..MaxId that the requests
\* name.

TwoSlots == {1, 2}

RaceRoutes(s) ==
    IF s = 1 THEN {DELETE_USER, RESET_PASSWORD, CHANGE_ROLE} ELSE {CHANGE_ROLE}

AdminRoles == ADMIN..OWNER

RaceActor(s) == MaxId + s

WellFormedIds == {Str(<<DigitChar(i)>>) : i \in Ids}

WellFormedRoles == {Str(<<DigitChar(i)>>) : i \in Roles}

InitRace ==
    /\ accounts \in Tables
    /\ reqs = [s \in TwoSlots |-> IdleRequest]
    /\ call = NoCall

ReceiveRace(s) ==
    /\ reqs[s].pc = "idle"
    /\ \E route \in RaceRoutes(s), role \in AdminRoles, id \in WellFormedIds :
        \E body \in IF HasRoleBody(route) THEN WellFormedRoles ELSE {undefined} :
            reqs' = [reqs EXCEPT ![s] =
                        NewRequest(Chain(route), route, Method(route),
                                   Claims(RaceActor(s), role), id, body)]
    /\ UNCHANGED <<accounts, call>>

NextRace ==
    \E s \in TwoSlots :
        \/ ReceiveRace(s)
        \/ requireAdmin(s)
        \/ validateAdminPasswordReset(s)
        \/ validateAdminRoleChange(s)
        \/ checkRoleHierarchy(s)
        \/ checkRoleHierarchyQuery(s)
        \/ checkRoleChangeHierarchy(s)
        \/ checkRoleChangeHierarchyQuery(s)
        \/ deleteUser(s)
        \/ resetUserPassword(s)
        \/ resetUserPasswordTransaction(s)
        \/ changeUserRole(s)
        \/ changeUserRoleUpdate(s)

SpecRace == InitRace /\ [][NextRace]_vars

----------------------------------------------------------------------------
\* C17. With two requests in flight, every write follows a decision that was
\* right for the role the gate read (that role is below the actor's), and the
\* write is applied with no second comparison: the role the row holds when
\* it is written differs from the role read only because the other request
\* changed it in between, and may then be at or above the actor's.
C17_WriteRestsOnRoleRead ==
    \A s \in DOMAIN reqs :
        LET r == reqs[s]
        IN  \A i \in 1..Len(r.writes) :
                LET w == r.writes[i]
                IN  /\ FoundTarget(r)
                    /\ r.queried.account_role < r.claims.role
                    /\ w.id = TargetId(r).n
                    /\ w.roleAtWrite # r.queried.account_role =>
                            \E t \in DOMAIN reqs \ {s} :
                                /\ reqs[t].writes # <<>>
                                /\ reqs[t].writes[1].op = "role"
                                /\ reqs[t].writes[1].id = w.id
                                /\ reqs[t].writes[1].newRole = w.roleAtWrite

\* The interleaving: a super admin (4) was allowed to delete an account of
\* role 3; before the delete, an owner made that account an owner; the
\* delete was applied to a row of role 5.
C17_Witness ==
    LET first  == reqs[1]
        second == reqs[2]
    IN  /\ first.route = DELETE_USER
        /\ first.claims.role = 4
        /\ first.queried.account_role = 3
        /\ second.route = CHANGE_ROLE
        /\ second.claims.role = 5
        /\ second.writes # <<>> /\ second.writes[1].newRole = 5
        /\ second.writes[1].id = TargetId(first).n
        /\ first.writes # <<>> /\ first.writes[1].op = "delete"
        /\ first.writes[1].roleAtWrite = 5
        /\ first.status = 200
        /\ accounts[TargetId(first).n].role = 5
        /\ accounts[TargetId(first).n].status = "deleted"

----------------------------------------------------------------------------
\* The same request sent twice: the second is a copy of the first (claims,
\* route, id, role), and the two run side by side.

Repeat(s) ==
    /\ s # 1
    /\ reqs[s].pc = "idle"
    /\ reqs[1].pc # "idle"
    /\ LET first == reqs[1]
       IN  reqs' = [reqs EXCEPT ![s] =
                        NewRequest(first.chain, first.route, first.method, first.claims,
                                   first.paramId, first.bodyRole)]
    /\ UNCHANGED <<accounts, call>>

NextTwice ==
    \/ Receive(1)
    \/ \E s \in TwoSlots :
        \/ Repeat(s)
        \/ requireAdmin(s)
        \/ validateAdminCreateUser(s)
        \/ validateAdminUsersList(s)
        \/ validateUserSearch(s)
        \/ validateAdminPasswordReset(s)
        \/ validateAdminRoleChange(s)
        \/ validateRoleCreation(s)
        \/ checkRoleHierarchy(s)
        \/ checkRoleHierarchyQuery(s)
        \/ checkRoleChangeHierarchy(s)
        \/ checkRoleChangeHierarchyQuery(s)
        \/ createUser(s)
        \/ createUserTransaction(s)
        \/ getAllUsers(s)
        \/ searchUsers(s)
        \/ getDashboardStats(s)
        \/ getUserById(s)
        \/ updateUser(s)
        \/ deleteUser(s)
        \/ resetUserPassword(s)
        \/ resetUserPasswordTransaction(s)
        \/ changeUserRole(s)
        \/ changeUserRoleUpdate(s)

SpecTwice == InitRace /\ [][NextTwice]_vars

----------------------------------------------------------------------------
\* The middleware that decide on roles.
AuthGates == {"requireAdmin", "validateRoleCreation"} \cup Gates

----------------------------------------------------------------------------
\* checkRoleChangeHierarchy finished on a request with claims and a role
\* that parseInt reads as a number.
C19_InScope(r) ==
    /\ Ran(r, "checkRoleChangeHierarchy")
    /\ r.claims.present
    /\ ~isNaN(parseInt(r.bodyRole))

----------------------------------------------------------------------------
\* Requests one after the other: a request runs from its arrival to its end
\* with no other in between, then the next arrives. Each comes from a
\* principal of the table whose token carries the role its row holds.

ReceiveStored(s) ==
    /\ reqs[s].pc = "idle"
    /\ \E actor \in Ids, route \in Routes :
        \E id \in IF HasIdParam(route) THEN RawIds ELSE {undefined} :
        \E role \in IF HasRoleBody(route) THEN RawRoles ELSE {undefined} :
            /\ accounts[actor].exists
            /\ reqs' = [reqs EXCEPT ![s] =
                            NewRequest(Chain(route), route, Method(route),
                                       Claims(actor, accounts[actor].role), id, role)]
    /\ UNCHANGED <<accounts, call>>

\* The request object is discarded once the request has ended.
Finish(s) ==
    /\ Ended(reqs[s])
    /\ reqs' = [reqs EXCEPT ![s] = IdleRequest]
    /\ UNCHANGED <<accounts, call>>

NextSeq ==
    \E s \in Slots :
        \/ ReceiveStored(s)
        \/ Finish(s)
        \/ requireAdmin(s)
        \/ validateAdminCreateUser(s)
        \/ validateAdminUsersList(s)
        \/ validateUserSearch(s)
        \/ validateAdminPasswordReset(s)
        \/ validateAdminRoleChange(s)
        \/ validateRoleCreation(s)
        \/ checkRoleHierarchy(s)
        \/ checkRoleHierarchyQuery(s)
        \/ checkRoleChangeHierarchy(s)
        \/ checkRoleChangeHierarchyQuery(s)
        \/ createUser(s)
        \/ createUserTransaction(s)
        \/ getAllUsers(s)
        \/ searchUsers(s)
        \/ getDashboardStats(s)
        \/ getUserById(s)
        \/ updateUser(s)
        \/ deleteUser(s)
        \/ resetUserPassword(s)
        \/ resetUserPasswordTransaction(s)
        \/ changeUserRole(s)
        \/ changeUserRoleUpdate(s)

SpecSeq == Init /\ [][NextSeq]_vars


\* C20. When requests run one after the other (gate and write of a request
\* with no other request in between) and every actor's token carries the role
\* its row holds, then in every sequence of admin requests each update, soft
\* delete, password reset and role change is applied to a row whose role at
\* the time of the write is strictly below the actor's role; a row of role 5
\* is never updated, deleted, password-reset or re-roled.
C20_WritesOnlyBelowActor ==
    \A s \in DOMAIN reqs :
        LET r == reqs[s]
        IN  \A i \in 1..Len(r.writes) :
                LET w == r.writes[i]
                IN  w.op \in {"update", "delete", "password", "role"} =>
                        /\ w.roleAtWrite < r.claims.role
                        /\ w.roleAtWrite # OWNER
                        /\ r.claims.role = accounts[r.claims.id].role

\* A later request of a sequence: the row was soft-deleted by an earlier
\* request, and an owner now gives that row of role 4 the role 3.
C20_Witness ==
    \E s \in DOMAIN reqs :
        LET r == reqs[s]
        IN  /\ r.route = CHANGE_ROLE
            /\ r.status = 200
            /\ r.claims.role = OWNER
            /\ Len(r.writes) = 1
            /\ r.writes[1].op = "role"
            /\ r.writes[1].roleAtWrite = 4
            /\ r.writes[1].newRole = 3
            /\ accounts[r.writes[1].id].status = "deleted"
            /\ accounts[r.writes[1].id].role = 3


----------------------------------------------------------------------------
\* Two requests that write a role, in flight at once, their steps
\* interleaving at the awaits: the first creates a user or changes a role,
\* the second changes a role. As in the race above, each administrator's own
\* row lies outside 1..MaxId.

GrantRoutes(s) == IF s = 1 THEN {CREATE_USER, CHANGE_ROLE} ELSE {CHANGE_ROLE}

\* The bodies' roles: the five roles and, in the first request, one out of
\* range and one that is not an integer.
GrantRoles(s) ==
    IF s = 1 THEN WellFormedRoles \cup {Str(<<"6">>), Str(<<"4", "x">>)}
    ELSE WellFormedRoles

ReceiveGrant(s) ==
    /\ reqs[s].pc = "idle"
    /\ \E route \in GrantRoutes(s), role \in AdminRoles, body \in GrantRoles(s) :
        \E id \in IF HasIdParam(route) THEN WellFormedIds ELSE {undefined} :
            reqs' = [reqs EXCEPT ![s] =
                        NewRequest(Chain(route), route, Method(route),
                                   Claims(RaceActor(s), role), id, body)]
    /\ UNCHANGED <<accounts, call>>

NextGrant ==
    \E s \in TwoSlots :
        \/ ReceiveGrant(s)
        \/ requireAdmin(s)
        \/ validateAdminCreateUser(s)
        \/ validateAdminRoleChange(s)
        \/ validateRoleCreation(s)
        \/ checkRoleChangeHierarchy(s)
        \/ checkRoleChangeHierarchyQuery(s)
        \/ createUser(s)
        \/ createUserTransaction(s)
        \/ changeUserRole(s)
        \/ changeUserRoleUpdate(s)

SpecGrant == InitRace /\ [][NextGrant]_vars


\* The highest role a row of the table holds (0 for the empty table).
C21_MaxRole(t) ==
    LET held == {t[i].role : i \in {j \in DOMAIN t : t[j].exists}}
    IN  IF held = {} THEN 0 ELSE CHOOSE m \in held : \A h \in held : h <= m

\* The role a request inserted or set is the role of its body, the one the
\* gate compared, and is at most the role of its claims.
C21_WroteCheckedRole ==
    \A s \in DOMAIN reqs :
        LET r == reqs[s]
        IN  \A i \in 1..Len(r.writes) :
                LET w == r.writes[i]
                IN  w.op \in {"insert", "role"} =>
                        /\ ~isNaN(parseInt(r.bodyRole))
                        /\ w.newRole = parseInt(r.bodyRole).n
                        /\ w.newRole <= r.claims.role
                        /\ accounts[w.id].exists

\* A step taken while no request in flight carries a role above the highest
\* stored one leaves the highest stored role no higher than it was.
C21_MaxRoleStep ==
    (\A s \in DOMAIN reqs :
        reqs[s].pc # "idle" => reqs[s].claims.role <= C21_MaxRole(accounts))
    => C21_MaxRole(accounts') <= C21_MaxRole(accounts)

\* C21. No privilege escalation through role writes: in every interleaving
\* of two requests, the role written by createUser or changeUserRole is the
\* role the gate compared and is at most the role in the claims of the
\* request that wrote it; so while no request carries a claims role above
\* the highest stored role, the highest stored role never increases.
C21_NoEscalationThroughRoleWrites ==
    []C21_WroteCheckedRole /\ [][C21_MaxRoleStep]_vars

\* Both requests wrote a role, interleaved: the first created a user at its
\* own role 4, the second, an owner's, then raised that user to 5.
C21_Witness ==
    LET first  == reqs[1]
        second == reqs[2]
    IN  /\ first.route = CREATE_USER
        /\ first.claims.role = 4
        /\ Len(first.writes) = 1
        /\ first.writes[1].op = "insert"
        /\ first.writes[1].newRole = 4
        /\ first.pc = "done"
        /\ second.route = CHANGE_ROLE
        /\ second.claims.role = OWNER
        /\ Len(second.writes) = 1
        /\ second.writes[1].op = "role"
        /\ second.writes[1].id = first.writes[1].id
        /\ second.writes[1].roleAtWrite = 4
        /\ second.writes[1].newRole = OWNER
        /\ C21_MaxRole(accounts) = OWNER


----------------------------------------------------------------------------
\* C22. The tier-ceiling denial is unreachable: a request with acting role 3
\* and a requested role above 3 is denied by the promotion ceiling before
\* the lookup, so no request waits for the lookup with those inputs and no
\* execution of checkRoleChangeHierarchy answers "Admins can only assign
\* roles up to admin level".
C22_TierCeilingUnreachable ==
    \A s \in DOMAIN reqs :
        LET r == reqs[s]
        IN  /\ r.message # "Admins can only assign roles up to admin level"
            /\ r.pc = "checkRoleChangeHierarchy:query" =>
                    ~(r.claims.role = ADMIN /\ parseInt(r.bodyRole).n > ADMIN)

\* The tier rule's case, answered by the promotion ceiling: an admin (3)
\* asks for role 4 for an existing user of role 2.
C22_Witness ==
    \E s \in DOMAIN reqs :
        LET r == reqs[s]
        IN  /\ Ran(r, "checkRoleChangeHierarchy")
            /\ r.claims.present /\ r.claims.role = ADMIN
            /\ RequestedRole(r) = 4
            /\ TargetExists(r) /\ accounts[TargetId(r).n].role = 2
            /\ r.pc = "done" /\ r.status = 403
            /\ r.message = "Cannot promote user to higher role than your own"
            /\ r.lookups = 0


----------------------------------------------------------------------------
\* Claims that outlive the actor's row. The first request comes from a
\* principal of the table, with the role its row holds when the claims are
\* issued; the second is the same request sent again with the same claims;
\* the third is an owner's, who changes the first actor's role or deletes
\* the first actor. The three interleave at the awaits, so the first two
\* may be decided before or after the actor's row was changed.

ThreeSlots == {1, 2, 3}

StaleRoutes == {UPDATE_USER, DELETE_USER, RESET_PASSWORD, CHANGE_ROLE}

DemotionRoutes == {DELETE_USER, CHANGE_ROLE}

InitStale ==
    /\ accounts \in Tables
    /\ reqs = [s \in ThreeSlots |-> IdleRequest]
    /\ call = NoCall

ReceiveStale(s) ==
    /\ reqs[s].pc = "idle"
    /\ \E actor \in Ids, route \in StaleRoutes, id \in WellFormedIds :
        \E body \in IF HasRoleBody(route) THEN WellFormedRoles ELSE {undefined} :
            /\ accounts[actor].exists
            /\ reqs' = [reqs EXCEPT ![s] =
                            NewRequest(Chain(route), route, Method(route),
                                       Claims(actor, accounts[actor].role), id, body)]
    /\ UNCHANGED <<accounts, call>>

ReceiveDemotion(s) ==
    /\ reqs[s].pc = "idle"
    /\ reqs[1].pc # "idle"
    /\ \E route \in DemotionRoutes :
        \E body \in IF HasRoleBody(route) THEN WellFormedRoles ELSE {undefined} :
            reqs' = [reqs EXCEPT ![s] =
                        NewRequest(Chain(route), route, Method(route),
                                   Claims(RaceActor(s), OWNER),
                                   Str(<<DigitChar(reqs[1].claims.id)>>), body)]
    /\ UNCHANGED <<accounts, call>>

NextStale ==
    \/ ReceiveStale(1)
    \/ Repeat(2)
    \/ ReceiveDemotion(3)
    \/ \E s \in ThreeSlots :
        \/ requireAdmin(s)
        \/ validateAdminPasswordReset(s)
        \/ validateAdminRoleChange(s)
        \/ checkRoleHierarchy(s)
        \/ checkRoleHierarchyQuery(s)
        \/ checkRoleChangeHierarchy(s)
        \/ checkRoleChangeHierarchyQuery(s)
        \/ updateUser(s)
        \/ deleteUser(s)
        \/ resetUserPassword(s)
        \/ resetUserPasswordTransaction(s)
        \/ changeUserRole(s)
        \/ changeUserRoleUpdate(s)

SpecStale == InitStale /\ [][NextStale]_vars


\* The first request and its copy are both in, and neither has written: the
\* table has changed, if at all, in the first actor's row only.
C23_TwoStores ==
    /\ reqs[2].pc # "idle"
    /\ reqs[1].writes = <<>> /\ reqs[2].writes = <<>>

\* Middleware g finished on both requests, its lookups answered, with the
\* same decision: next() both times, or the same status and message.
C23_SameDecision(g) ==
    LET a == reqs[1]
        b == reqs[2]
    IN  (/\ Ran(a, g) /\ Ran(b, g)
         /\ g \in Gates => (~a.queryFailed /\ ~b.queryFailed)) =>
            /\ Passed(a, g) <=> Passed(b, g)
            /\ Denied(a, g) <=> Denied(b, g)
            /\ Denied(a, g) => (a.status = b.status /\ a.message = b.message)

\* C23 as stated: the same claims, target, operation and payload get the
\* same decision in two stores that differ only in the actor's row.
C23_DecisionIgnoresActorRow ==
    C23_TwoStores => \A g \in AuthGates : C23_SameDecision(g)

\* C23. The gates take the actor's id and role from the claims only: the
\* same claims, target, operation and payload get the same decision in two
\* stores that differ only in the actor's row, whenever the actor's row is
\* not itself the row looked up (the target is another principal, or the
\* request is a delete or a role change of oneself, denied before the
\* lookup) or holds the same role in both; a request whose claims were
\* issued before the actor was demoted is decided at the role of the claims.
C23_DecisionIgnoresActorRowUnlessTarget ==
    LET a == reqs[1]
        b == reqs[2]
    IN  C23_TwoStores =>
            /\ <<b.route, b.claims, b.paramId, b.bodyRole>> =
                    <<a.route, a.claims, a.paramId, a.bodyRole>>
            /\ (\/ ~SelfTarget(a)
                \/ a.route \in {DELETE_USER, CHANGE_ROLE}
                \/ a.queried = b.queried) =>
                    \A g \in AuthGates : C23_SameDecision(g)
            /\ \A s \in {1, 2} :
                    (Passed(reqs[s], "checkRoleHierarchy") \/
                     Passed(reqs[s], "checkRoleChangeHierarchy")) =>
                        reqs[s].queried.account_role < reqs[s].claims.role

\* An actor with claims of role 4 was made a plain user (1) by the owner;
\* the request to update an account of role 3 and its copy were both let
\* through, at the role of the claims.
C23_Witness ==
    LET a == reqs[1]
        b == reqs[2]
        c == reqs[3]
    IN  /\ C23_TwoStores
        /\ a.route = UPDATE_USER
        /\ a.claims.role = 4
        /\ ~SelfTarget(a)
        /\ c.route = CHANGE_ROLE /\ Len(c.writes) = 1
        /\ c.writes[1].id = a.claims.id
        /\ c.writes[1].roleAtWrite = 4 /\ c.writes[1].newRole = 1
        /\ accounts[a.claims.id].role = 1
        /\ a.queried.account_role = 3 /\ b.queried.account_role = 3
        /\ Passed(a, "checkRoleHierarchy") /\ Passed(b, "checkRoleHierarchy")


----------------------------------------------------------------------------
\* C24. Every invocation of requireAdmin, validateRoleCreation,
\* checkRoleHierarchy or checkRoleChangeHierarchy that has finished (its
\* lookup, if it made one, answered or failed), on a request that carries
\* claims and, for requireAdmin, on any request, ended in exactly one of two
\* ways: it sent one error response and did not call next(), or it called
\* next() once and sent nothing. Over the request: every handler that
\* finished either sent or called next(), at most one response was sent, and
\* no handler ran after it.
C24_ExactlyOneOutcome ==
    \A s \in DOMAIN reqs :
        LET r == reqs[s]
        IN  /\ \A g \in AuthGates :
                (Ran(r, g) /\ (r.claims.present \/ g = "requireAdmin")) =>
                    /\ Passed(r, g) # Denied(r, g)
                    /\ Passed(r, g) => r.responder # g
                    /\ Denied(r, g) => (r.status >= 400 /\ r.trail[Len(r.trail)] = g)
            /\ (r.claims.present \/ r.pc # "threw") =>
                    /\ r.sends + r.nexts = Len(r.trail)
                    /\ r.sends <= 1
                    /\ r.sends = 1 <=> r.pc = "done"

\* A request went through three gates: requireAdmin and the validator called
\* next(), checkRoleChangeHierarchy's lookup failed and it answered 500.
C24_Witness ==
    \E s \in DOMAIN reqs :
        LET r == reqs[s]
        IN  /\ r.route = CHANGE_ROLE
            /\ Passed(r, "requireAdmin")
            /\ Denied(r, "checkRoleChangeHierarchy")
            /\ r.queryFailed /\ r.status = 500
            /\ r.trail = <<"requireAdmin", "validateAdminRoleChange",
                           "checkRoleChangeHierarchy">>
            /\ r.nexts = 2 /\ r.sends = 1


----------------------------------------------------------------------------
\* An actor and its later requests. The first request comes from an
\* administrator whose own row lies outside 1..MaxId, and creates a user or
\* changes a role. Once it has given a principal the actor's own role,
\* further requests arrive one after the other, from the same actor with the
\* same claims, against any id; no one else acts in between.

PeerRoutes == {CREATE_USER, CHANGE_ROLE}

LaterRoutes == {UPDATE_USER, DELETE_USER, RESET_PASSWORD, CHANGE_ROLE}

\* The request inserted a row with the role of its claims, or set a row's
\* role to it.
RaisedToOwnLevel(r) ==
    /\ r.pc = "done"
    /\ Len(r.writes) = 1
    /\ r.writes[1].op \in {"insert", "role"}
    /\ r.writes[1].newRole = r.claims.role

ReceiveFirst(s) ==
    /\ reqs[s].pc = "idle"
    /\ \E role \in AdminRoles, route \in PeerRoutes, body \in WellFormedRoles :
        \E id \in IF HasIdParam(route) THEN WellFormedIds ELSE {undefined} :
            reqs' = [reqs EXCEPT ![s] =
                        NewRequest(Chain(route), route, Method(route),
                                   Claims(RaceActor(s), role), id, body)]
    /\ UNCHANGED <<accounts, call>>

ReceiveLater(s) ==
    /\ reqs[s].pc = "idle"
    /\ RaisedToOwnLevel(reqs[1])
    /\ \E route \in LaterRoutes, id \in RawIds :
        \E body \in IF HasRoleBody(route) THEN RawRoles ELSE {undefined} :
            reqs' = [reqs EXCEPT ![s] =
                        NewRequest(Chain(route), route, Method(route),
                                   reqs[1].claims, id, body)]
    /\ UNCHANGED <<accounts, call>>

NextPeer ==
    \/ ReceiveFirst(1)
    \/ ReceiveLater(2)
    \/ Finish(2)
    \/ \E s \in TwoSlots :
        \/ requireAdmin(s)
        \/ validateAdminCreateUser(s)
        \/ validateAdminPasswordReset(s)
        \/ validateAdminRoleChange(s)
        \/ validateRoleCreation(s)
        \/ checkRoleHierarchy(s)
        \/ checkRoleHierarchyQuery(s)
        \/ checkRoleChangeHierarchy(s)
        \/ checkRoleChangeHierarchyQuery(s)
        \/ createUser(s)
        \/ createUserTransaction(s)
        \/ updateUser(s)
        \/ deleteUser(s)
        \/ resetUserPassword(s)
        \/ resetUserPasswordTransaction(s)
        \/ changeUserRole(s)
        \/ changeUserRoleUpdate(s)

SpecPeer == InitRace /\ [][NextPeer]_vars


\* A later request of the actor against the principal the first request
\* raised, while that principal still holds the actor's role: the gate of
\* the later request has finished, on the role it read or before any read.
C25_AgainstPeer(b) ==
    LET a == reqs[1]
        T == a.writes[1].id
    IN  /\ RaisedToOwnLevel(a)
        /\ b.pc # "idle" /\ b.claims = a.claims
        /\ ~isNaN(TargetId(b)) /\ TargetId(b).n = T
        /\ IF b.lookups > 0 /\ ~b.queryFailed
           THEN b.queried.rowCount = 1 /\ b.queried.account_role = a.claims.role
           ELSE accounts[T].role = a.claims.role

\* The later request is well formed and the store answered its lookup.
C25_WellFormed(b) ==
    /\ isIntText(b.paramId)
    /\ b.errors = {}
    /\ ~b.queryFailed

\* C25 as stated: every later request of the actor against that principal
\* that has ended was denied with INSUFFICIENT_HIERARCHY.
C25_PeerDeniedInsufficientHierarchy ==
    LET b == reqs[2]
    IN  (C25_AgainstPeer(b) /\ C25_WellFormed(b) /\ Ended(b)) =>
            /\ b.pc = "done" /\ b.status = 403
            /\ DenyReason(b) = "INSUFFICIENT_HIERARCHY"

\* C25. After actor A (role r, claims unchanged) created a user at role r or
\* changed T's role to r, no later update, delete, password reset or role
\* change by A against that principal is applied while its stored role is r,
\* a demotion included: none passes its gate and none writes; a well-formed
\* one whose lookup was answered is denied 403, with INSUFFICIENT_HIERARCHY,
\* or, when it is a role change to a role above r, with PROMOTION_CEILING.
C25_PeerOutOfReach ==
    LET b == reqs[2]
    IN  C25_AgainstPeer(b) =>
            /\ b.writes = <<>>
            /\ ~PassedAllGates(b)
            /\ Ended(b) => b.pc = "done"
            /\ (C25_WellFormed(b) /\ Ended(b)) =>
                    /\ b.status = 403
                    /\ DenyReason(b) =
                            IF b.route = CHANGE_ROLE /\ RequestedRole(b) > b.claims.role
                            THEN "PROMOTION_CEILING"
                            ELSE "INSUFFICIENT_HIERARCHY"

\* A super admin (4) raised an account from 2 to 4 and then asked to make it
\* a plain user (1): denied, and the account still holds role 4.
C25_Witness ==
    LET a == reqs[1]
        b == reqs[2]
    IN  /\ C25_AgainstPeer(b)
        /\ a.route = CHANGE_ROLE /\ a.claims.role = 4
        /\ a.writes[1].roleAtWrite = 2
        /\ b.route = CHANGE_ROLE /\ RequestedRole(b) = 1
        /\ b.pc = "done" /\ b.status = 403
        /\ DenyReason(b) = "INSUFFICIENT_HIERARCHY"
        /\ accounts[a.writes[1].id].role = 4

====
